---- MODULE Spec2Model ----
(***************************************************************************)
(* A model of parts of the reverse proxy:                                  *)
(*   - the Failover handler (package failover),                            *)
(*   - the session-oriented UDP Listener and Conn, Proxy.ServeUDP and the  *)
(*     backend socket of a client (package udp),                           *)
(*   - the TCP router and the rule muxer (package tcp),                    *)
(*   - the Kubernetes ACME store (package acme).                           *)
(* Every goroutine is a process with a program counter; a mutex is the     *)
(* name of the goroutine holding it; an unbuffered channel operation is a  *)
(* rendezvous of the two goroutines taking part in it.                     *)
(***************************************************************************)
EXTENDS Integers, Sequences, FiniteSets, TLC

(***************************************************************************)
(* ------------------------------ Failover ------------------------------ *)
(***************************************************************************)

\* Goroutines that call into one Failover unit.
FThreads == {"g1", "g2"}

\* The http.Handler values a caller may install.
Handlers == {"h1", "h2"}

\* Greatest number of registered updaters.
MaxUpdaters == 2

Nil == "nil"
Free == "free"

VARIABLES
    wantsHealthCheck,   \* Failover.wantsHealthCheck
    handler,            \* Failover.handler (Nil or a handler)
    failoverHandler,    \* Failover.failoverHandler
    updaters,           \* Failover.updaters: the registered hooks, in order
    handlerStatusMu,    \* holder of the write lock, or Free
    handlerStatus,      \* Failover.handlerStatus
    failoverStatusMu,   \* holder of the write lock, or Free
    failoverStatus,     \* Failover.failoverStatus
    fpc,                \* per goroutine: where it is inside a Failover method
    fUp,                \* per goroutine: the argument `up` of the setter it runs
    fI,                 \* per goroutine: index of the next updater of its range loop
    fHs,                \* per goroutine: ServeHTTP's local handlerStatus
    fLog,               \* per goroutine: the updater calls <<fn, arg>> of the setter it runs
    fLast,              \* the call that returned last, and what it did
    prevSHS             \* the SetHandlerStatus call that returned last, if nothing
                        \* touched the primary slot or the updaters since

fvars == <<wantsHealthCheck, handler, failoverHandler, updaters, handlerStatusMu,
           handlerStatus, failoverStatusMu, failoverStatus, fpc, fUp, fI, fHs,
           fLog, fLast, prevSHS>>

\* The state of the UDP listener, its sessions and the goroutines around them.
VARIABLES
    nSent,          \* number of datagrams the clients have sent
    inbox,          \* datagrams <<raddr, payload>> waiting in the socket
    pConnClosed,    \* Listener.pConn has been closed
    accepting,      \* Listener.accepting
    acceptChClosed, \* Listener.acceptCh has been closed
    conns,          \* Listener.conns: raddr -> session (NoConn: no entry)
    lrequests,      \* Listener.requests
    nConns,         \* number of sessions newConn has created
    cAddr,          \* Conn.rAddr
    msgs,           \* Conn.msgs
    crequests,      \* Conn.requests
    doneCh,         \* Conn.doneCh has been closed
    nDone,          \* number of times close(c.doneCh) has run (2: more than once)
    lastActivity,   \* Conn.lastActivity: "recent", or "old" (more than the
                    \* timeout ago, as the zero time of a new session is)
    rlpc,           \* Conn.readLoop: "none", "loop" or "exit"
    hpc,            \* the handler of a session: "none", "idle", "read", "count"
    hGot,           \* what the Read that is returning to the handler got
    lpc,            \* Listener.readLoop: where it is
    lAddr,          \* Listener.readLoop: raddr of the datagram in hand
    lData,          \* Listener.readLoop: buf[:n] of the datagram in hand
    lConn,          \* Listener.readLoop: the session getConn works on
    spc,            \* per Shutdown caller: "idle" or "poll"
    apc,            \* the caller of Accept: "idle", "in" (blocked in Accept), or
                    \* what its last call returned: "conn", "errClosedListener"
    pending,        \* per session: payloads handed to it and not yet read
    nClose,         \* number of times Listener.close has run
    sawNoop         \* a call of Shutdown found accepting false and returned

uvars == <<nSent, inbox, pConnClosed, accepting, acceptChClosed, conns, lrequests,
           nConns, cAddr, msgs, crequests, doneCh, nDone, lastActivity, rlpc, hpc, hGot,
           lpc, lAddr, lData, lConn, spc, apc, pending,
           nClose, sawNoop>>

\* The state of the UDP listener with Session limits (conn.go), whose getConn
\* works under the listener's mutex, for clients at one address.
VARIABLES
    smu,             \* Listener.mu: Free, or the goroutine that holds it
    sInbox,          \* number of datagrams waiting in the socket
    sSent,           \* number of datagrams the client has sent
    sAccepting,      \* Listener.accepting
    sPConnClosed,    \* Listener.pConn has been closed
    sAcceptChClosed, \* Listener.acceptCh has been closed
    sConns,          \* Listener.conns[raddr]: the sessions of the address
    sNConns,         \* number of sessions newConn has created
    sDone,           \* per session: StartCh and doneCh have been closed
    slpc,            \* Listener.readLoop: where it is
    sNew,            \* Listener.getConn: newConn
    shpc,            \* per session: where its handler (ServeUDP) is
    sapc,            \* the caller of Accept: "idle", "in", "conn", "errClosedListener"
    sspc             \* per Shutdown caller: "idle", "lock", "poll", "close"

svars == <<smu, sInbox, sSent, sAccepting, sPConnClosed, sAcceptChClosed, sConns,
           sNConns, sDone, slpc, sNew, shpc, sapc, sspc>>

\* The state of the TCP router and of the connection it serves.
VARIABLES
    tcpMuxer,           \* Router.tcpMuxer, the set of its routes
    tcpMuxerTLS,        \* Router.tcpMuxerTLS, the set of its routes
    httpForwarder,      \* Router.httpForwarder (Nil or a handler)
    httpsForwarder,     \* Router.httpsForwarder (Nil or a handler)
    hostHTTPTLSConfig,  \* the keys of Router.hostHTTPTLSConfig
    tpc,                \* "config" until ServeTCP has run, then "served"
    stream,             \* the bytes the client sends on the connection
    chunk,              \* the most bytes one Read of the connection returns
    remote,             \* conn.RemoteAddr()
    connPos,            \* number of bytes read from the connection
    connClosed,         \* number of calls of conn.Close by the router
    connDeadline,       \* the connection's read and write deadlines: "set" or "none"
    served,             \* the handlers whose ServeTCP was called, in order
    wrapped,            \* the handler was given a Conn made by GetConn
    Peeked,             \* Conn.Peeked
    got                 \* the bytes the handler has read

rvars == <<tcpMuxer, tcpMuxerTLS, httpForwarder, httpsForwarder, hostHTTPTLSConfig,
           tpc, stream, chunk, remote, connPos, connClosed, connDeadline, served,
           wrapped, Peeked, got>>

\* The rule muxer of package tcp (pkg/muxer/tcp), on its own.
VARIABLES
    routes,             \* Muxer.routes, in the order the routes were added
    addErr,             \* the last AddRoute returned an error
    nAdded              \* number of AddRoute calls that returned no error

mvars == <<routes, addErr, nAdded>>

\* Proxy.ServeUDP and its copy goroutines, for one session.
VARIABLES
    pvariant,           \* which ServeUDP this is: "lConn" (pkg/udp/proxy.go) or "dial"
    servePc,            \* where ServeUDP is
    copyPc,             \* per direction: where its copy goroutine is
    connIsClosed,       \* the session (conn) is closed
    backendIsClosed,    \* connBackend is closed
    backendFailed,      \* reads and writes on the backend socket return an error
    copiedN             \* per direction: datagrams copied so far

pvars == <<pvariant, servePc, copyPc, connIsClosed, backendIsClosed, backendFailed,
           copiedN>>

\* The backend socket of one client (backendsConn) and its receive goroutine.
VARIABLES
    targets,            \* backendsConn.targets
    written,            \* the addresses WriteTo was called with, so far
    bpc,                \* where the receive goroutine of getBackendsConn is
    inHand,             \* the source address of the datagram ReadFrom returned
    bConnClosed,        \* backendsConn.closed
    fwdLog              \* the datagrams the goroutine handled: source, forwarded or not

bvars == <<targets, written, bpc, inHand, bConnClosed, fwdLog>>

\* Conn.Write of the session variant (pkg/udp/conn.go), for one session.
VARIABLES
    sessionResponses,   \* Conn.session.Responses
    receiveCount,       \* Conn.receiveCount
    isClosed,           \* Conn.isClosed
    nWrites,            \* number of Write calls so far
    nCloses,            \* number of Close calls made by Write
    writeErr            \* the last Write returned an error

wvars == <<sessionResponses, receiveCount, isClosed, nWrites, nCloses, writeErr>>

\* The Kubernetes ACME store (pkg/provider/acme/kubernetes_store.go).
VARIABLES
    storedData,         \* KubernetesStore.storedData: resolver name -> *StoredData
    kSaved,             \* the resolver names a Save call was made for
    kLast               \* the last call: its name, arguments and results

kvars == <<storedData, kSaved, kLast>>

\* The two status setters of Failover, with the evaluation of an updater's
\* argument and the call of the updater as two steps.
VARIABLES
    rcStatus,           \* Failover.handlerStatus and Failover.failoverStatus
    rcMu,               \* handlerStatusMu and failoverStatusMu: Free or the holder
    rcPc,               \* per goroutine: "idle", "eval" or "call"
    rcWhich,            \* per goroutine: the setter it runs
    rcArg,              \* per goroutine: the argument evaluated for the next call
    rcI,                \* per goroutine: the index of the range loop
    rcLast,             \* per updater: the last value it was called with
    rcCalls             \* number of setter calls made

cvars == <<rcStatus, rcMu, rcPc, rcWhich, rcArg, rcI, rcLast, rcCalls>>

\* The idle timer of one session on a clock. The unit of time is the period of
\* the ticker of Conn.readLoop.
VARIABLES
    tNow,               \* time.Now()
    tCreated,           \* the time at which newConn made the session
    tLastActivity,      \* Conn.lastActivity
    tLoopPc,                \* Conn.readLoop: "loop", or "exit" after its c.Close()
    tOps,               \* number of Reads and Writes completed
    tLastOp             \* the last of them: "none", "Read" or "Write"

tvars == <<tNow, tCreated, tLastActivity, tLoopPc, tOps, tLastOp>>

\* Proxy.ServeUDP over the shared backend socket: one goroutine that copies
\* the datagrams of a session to the target.
VARIABLES
    yCopy,              \* the goroutine: "read", "write", "send" or "done"
    yServe,             \* ServeUDP: "wait" at <-errChan, or "returned"
    yDoneCh,            \* the session's doneCh is closed
    yWrites,            \* the results of the WriteTo calls, in order
    yErr,               \* the value for errChan: "none", "nil" or "error"
    yLogged             \* ServeUDP has logged an error

yvars == <<yCopy, yServe, yDoneCh, yWrites, yErr, yLogged>>

\* Proxy.ServeUDP of the variant with a map of sessions: the proxy's lock and
\* map, and one ServeUDP call per session the listener hands over.
VARIABLES
    qReaders,           \* Proxy.lock: the calls that hold it for reading
    qWriter,            \* Proxy.lock: NoConn, or the session whose call holds it for writing
    qConns,             \* Proxy.conns, per remote address: a session or NoConn
    qAddr,              \* per session: Conn.rAddr, Nil before the session is made
    qIsClosed,          \* per session: Conn.isClosed
    qCanRead,           \* per session: Conn.canRead()
    qPc                 \* per session: where its ServeUDP call is

qvars == <<qReaders, qWriter, qConns, qAddr, qIsClosed, qCanRead, qPc>>

vars == <<fvars, uvars, svars, rvars, mvars, pvars, bvars, wvars, kvars, cvars, tvars, yvars, qvars>>

\* A step of one component leaves the others as they are.
FailoverAlone == UNCHANGED <<uvars, svars, rvars, mvars, pvars, bvars, wvars, kvars, cvars, tvars, yvars, qvars>>

UdpAlone == UNCHANGED <<fvars, svars, rvars, mvars, pvars, bvars, wvars, kvars, cvars, tvars, yvars, qvars>>

SessionAlone == UNCHANGED <<fvars, uvars, rvars, mvars, pvars, bvars, wvars, kvars, cvars, tvars, yvars, qvars>>

RouterAlone == UNCHANGED <<fvars, uvars, svars, mvars, pvars, bvars, wvars, kvars, cvars, tvars, yvars, qvars>>

MuxerAlone == UNCHANGED <<fvars, uvars, svars, rvars, pvars, bvars, wvars, kvars, cvars, tvars, yvars, qvars>>

ProxyAlone == UNCHANGED <<fvars, uvars, svars, rvars, mvars, bvars, wvars, kvars, cvars, tvars, yvars, qvars>>

BackendAlone == UNCHANGED <<fvars, uvars, svars, rvars, mvars, pvars, wvars, kvars, cvars, tvars, yvars, qvars>>

WriteAlone == UNCHANGED <<fvars, uvars, svars, rvars, mvars, pvars, bvars, kvars, cvars, tvars, yvars, qvars>>

StoreAlone == UNCHANGED <<fvars, uvars, svars, rvars, mvars, pvars, bvars, wvars, cvars, tvars, yvars, qvars>>

RaceAlone == UNCHANGED <<fvars, uvars, svars, rvars, mvars, pvars, bvars, wvars, kvars, tvars, yvars, qvars>>

IdleAlone == UNCHANGED <<fvars, uvars, svars, rvars, mvars, pvars, bvars, wvars, kvars, cvars, yvars, qvars>>

RelayAlone == UNCHANGED <<fvars, uvars, svars, rvars, mvars, pvars, bvars, wvars, kvars, cvars, tvars, qvars>>

LockAlone == UNCHANGED <<fvars, uvars, svars, rvars, mvars, pvars, bvars, wvars, kvars, cvars, tvars, yvars>>

NoPrev == [op |-> "none"]

\* New: every field but wantsHealthCheck has its zero value.
FailoverInit ==
    /\ wantsHealthCheck \in BOOLEAN
    /\ handler = Nil
    /\ failoverHandler = Nil
    /\ updaters = <<>>
    /\ handlerStatusMu = Free
    /\ handlerStatus = FALSE
    /\ failoverStatusMu = Free
    /\ failoverStatus = FALSE
    /\ fpc = [t \in FThreads |-> "idle"]
    /\ fUp = [t \in FThreads |-> FALSE]
    /\ fI = [t \in FThreads |-> 1]
    /\ fHs = [t \in FThreads |-> FALSE]
    /\ fLog = [t \in FThreads |-> <<>>]
    /\ fLast = NoPrev
    /\ prevSHS = NoPrev

\* A setter that drops the test and always propagates.
StillSameStatus_Never(up, status) == FALSE

\* A setter that skips the propagation only for a unit that stays down.
StillSameStatus_OnlyDown(up, status) == up = status /\ ~up

\* The test of the setters: "We're still with the same status".
StillSameStatus(up, status) == up = status

\* An updater argument that forgets the failover slot.
UpdaterArg_PrimaryOnly(hs, fs) == hs

\* The argument every updater is called with.
UpdaterArg(hs, fs) == hs \/ fs

\* ServeHTTP's first test, on the primary status it has read.
ServePrimary(hs) == hs

\* A ServeHTTP that falls back to the failover handler whatever its status.
ServeFailover_Always(fs) == TRUE

\* ServeHTTP's second test, on the failover status it has read.
ServeFailover(fs) == fs

AllIdle == \A t \in FThreads : fpc[t] = "idle"

RegisterStatusUpdater_Unchecked(t) ==
    /\ AllIdle
    /\ Len(updaters) < MaxUpdaters
    /\ fLast' = [op |-> "Register", err |-> FALSE]
    /\ updaters' = Append(updaters, Len(updaters) + 1)
    /\ prevSHS' = NoPrev
    /\ UNCHANGED <<wantsHealthCheck, handler, failoverHandler, handlerStatusMu,
                   handlerStatus, failoverStatusMu, failoverStatus, fpc, fUp, fI,
                   fHs, fLog>>
    /\ FailoverAlone

\* RegisterStatusUpdater(fn). "Not thread safe": callers register while no
\* other call is in flight. A registered hook is named by its position.
RegisterStatusUpdater(t) ==
    /\ AllIdle
    /\ Len(updaters) < MaxUpdaters
    /\ IF ~wantsHealthCheck
          THEN /\ fLast' = [op |-> "Register", err |-> TRUE]
               /\ UNCHANGED updaters
          ELSE /\ fLast' = [op |-> "Register", err |-> FALSE]
               /\ updaters' = Append(updaters, Len(updaters) + 1)
    /\ prevSHS' = NoPrev
    /\ UNCHANGED <<wantsHealthCheck, handler, failoverHandler, handlerStatusMu,
                   handlerStatus, failoverStatusMu, failoverStatus, fpc, fUp, fI,
                   fHs, fLog>>
    /\ FailoverAlone

\* SetHandler(h): under handlerStatusMu.
SetHandler(t, h) ==
    /\ fpc[t] = "idle"
    /\ handlerStatusMu = Free
    /\ handler' = h
    /\ handlerStatus' = TRUE
    /\ prevSHS' = NoPrev
    /\ fLast' = [op |-> "SetHandler"]
    /\ UNCHANGED <<wantsHealthCheck, failoverHandler, updaters, handlerStatusMu,
                   failoverStatusMu, failoverStatus, fpc, fUp, fI, fHs, fLog>>
    /\ FailoverAlone

\* SetFailoverHandler(h): under failoverStatusMu.
SetFailoverHandler(t, h) ==
    /\ fpc[t] = "idle"
    /\ failoverStatusMu = Free
    /\ failoverHandler' = h
    /\ failoverStatus' = TRUE
    /\ fLast' = [op |-> "SetFailoverHandler"]
    /\ UNCHANGED <<wantsHealthCheck, handler, updaters, handlerStatusMu,
                   handlerStatus, failoverStatusMu, fpc, fUp, fI, fHs, fLog,
                   prevSHS>>
    /\ FailoverAlone

\* The hooks a call has invoked, in order.
Called(log) == [i \in 1..Len(log) |-> log[i][1]]

\* The return of a setter: what it did, and for SetHandlerStatus the
\* SetHandlerStatus call that returned right before it.
Return(op, up, changed, log) ==
    /\ fLast' = [op |-> op, up |-> up, changed |-> changed, log |-> log,
                 prev |-> IF op = "SetHandlerStatus" THEN prevSHS ELSE NoPrev]
    /\ prevSHS' = IF op = "SetHandlerStatus"
                     THEN [op |-> op, up |-> up, changed |-> changed,
                           called |-> Called(log)]
                     ELSE prevSHS

\* SetHandlerStatus(ctx, up), from the Lock to the test of the status: either
\* the early return, or the assignment that precedes the range loop.
SetHandlerStatus(t, up) ==
    /\ fpc[t] = "idle"
    /\ handlerStatusMu = Free
    /\ IF StillSameStatus(up, handlerStatus)
          THEN /\ Return("SetHandlerStatus", up, FALSE, <<>>)
               /\ UNCHANGED <<handlerStatus, handlerStatusMu, fpc, fUp, fI>>
          ELSE /\ handlerStatus' = up
               /\ handlerStatusMu' = t
               /\ fpc' = [fpc EXCEPT ![t] = "shsLoop"]
               /\ fUp' = [fUp EXCEPT ![t] = up]
               /\ fI' = [fI EXCEPT ![t] = 1]
               /\ UNCHANGED <<fLast, prevSHS>>
    /\ UNCHANGED <<wantsHealthCheck, handler, failoverHandler, updaters,
                   failoverStatusMu, failoverStatus, fHs, fLog>>
    /\ FailoverAlone

\* One call fn(f.handlerStatus || f.failoverStatus) of a setter's range loop.
CallUpdater(t) ==
    /\ fI' = [fI EXCEPT ![t] = @ + 1]
    /\ fLog' = [fLog EXCEPT ![t] =
                  Append(@, <<updaters[fI[t]], UpdaterArg(handlerStatus, failoverStatus)>>)]

\* SetHandlerStatus, the range loop: one updater call, or the deferred Unlock.
SetHandlerStatusLoop(t) ==
    /\ fpc[t] = "shsLoop"
    /\ IF fI[t] <= Len(updaters)
          THEN /\ CallUpdater(t)
               /\ UNCHANGED <<handlerStatusMu, fpc, fUp, fLast, prevSHS>>
          ELSE /\ handlerStatusMu' = Free
               /\ fpc' = [fpc EXCEPT ![t] = "idle"]
               /\ Return("SetHandlerStatus", fUp[t], TRUE, fLog[t])
               /\ fUp' = [fUp EXCEPT ![t] = FALSE]
               /\ fI' = [fI EXCEPT ![t] = 1]
               /\ fLog' = [fLog EXCEPT ![t] = <<>>]
    /\ UNCHANGED <<wantsHealthCheck, handler, failoverHandler, updaters,
                   handlerStatus, failoverStatusMu, failoverStatus, fHs>>
    /\ FailoverAlone

\* SetFailoverHandlerStatus(ctx, up), from the Lock to the test of the status.
SetFailoverHandlerStatus(t, up) ==
    /\ fpc[t] = "idle"
    /\ failoverStatusMu = Free
    /\ IF StillSameStatus(up, failoverStatus)
          THEN /\ Return("SetFailoverHandlerStatus", up, FALSE, <<>>)
               /\ UNCHANGED <<failoverStatus, failoverStatusMu, fpc, fUp, fI>>
          ELSE /\ failoverStatus' = up
               /\ failoverStatusMu' = t
               /\ fpc' = [fpc EXCEPT ![t] = "sfhsLoop"]
               /\ fUp' = [fUp EXCEPT ![t] = up]
               /\ fI' = [fI EXCEPT ![t] = 1]
               /\ UNCHANGED <<fLast, prevSHS>>
    /\ UNCHANGED <<wantsHealthCheck, handler, failoverHandler, updaters,
                   handlerStatusMu, handlerStatus, fHs, fLog>>
    /\ FailoverAlone

\* SetFailoverHandlerStatus, the range loop.
SetFailoverHandlerStatusLoop(t) ==
    /\ fpc[t] = "sfhsLoop"
    /\ IF fI[t] <= Len(updaters)
          THEN /\ CallUpdater(t)
               /\ UNCHANGED <<failoverStatusMu, fpc, fUp, fLast, prevSHS>>
          ELSE /\ failoverStatusMu' = Free
               /\ fpc' = [fpc EXCEPT ![t] = "idle"]
               /\ Return("SetFailoverHandlerStatus", fUp[t], TRUE, fLog[t])
               /\ fUp' = [fUp EXCEPT ![t] = FALSE]
               /\ fI' = [fI EXCEPT ![t] = 1]
               /\ fLog' = [fLog EXCEPT ![t] = <<>>]
    /\ UNCHANGED <<wantsHealthCheck, handler, failoverHandler, updaters,
                   handlerStatusMu, handlerStatus, failoverStatus, fHs>>
    /\ FailoverAlone

\* ServeHTTP, first half: read the primary status under RLock, and serve with
\* the primary handler if it is up. A unit serves requests once both of its
\* handlers have been installed.
ServeHTTP(t) ==
    /\ fpc[t] = "idle"
    /\ handler # Nil /\ failoverHandler # Nil
    /\ handlerStatusMu = Free
    /\ IF ServePrimary(handlerStatus)
          THEN /\ fLast' = [op |-> "ServeHTTP", outcome |-> "primary",
                            invoked |-> <<handler>>, hs |-> handlerStatus,
                            fs |-> failoverStatus]
               /\ UNCHANGED <<fpc, fHs>>
          ELSE /\ fpc' = [fpc EXCEPT ![t] = "serve2"]
               /\ fHs' = [fHs EXCEPT ![t] = handlerStatus]
               /\ UNCHANGED fLast
    /\ UNCHANGED <<wantsHealthCheck, handler, failoverHandler, updaters,
                   handlerStatusMu, handlerStatus, failoverStatusMu,
                   failoverStatus, fUp, fI, fLog, prevSHS>>
    /\ FailoverAlone

\* ServeHTTP, second half: read the failover status under RLock, and serve with
\* the failover handler if it is up, with http.Error 503 otherwise.
ServeHTTPFailover(t) ==
    /\ fpc[t] = "serve2"
    /\ failoverStatusMu = Free
    /\ fLast' = IF ServeFailover(failoverStatus)
                   THEN [op |-> "ServeHTTP", outcome |-> "failover",
                         invoked |-> <<failoverHandler>>, hs |-> fHs[t],
                         fs |-> failoverStatus]
                   ELSE [op |-> "ServeHTTP", outcome |-> "503",
                         invoked |-> <<>>, hs |-> fHs[t], fs |-> failoverStatus]
    /\ fpc' = [fpc EXCEPT ![t] = "idle"]
    /\ fHs' = [fHs EXCEPT ![t] = FALSE]
    /\ UNCHANGED <<wantsHealthCheck, handler, failoverHandler, updaters,
                   handlerStatusMu, handlerStatus, failoverStatusMu,
                   failoverStatus, fUp, fI, fLog, prevSHS>>
    /\ FailoverAlone

FailoverNext ==
    \E t \in FThreads :
        \/ RegisterStatusUpdater(t)
        \/ \E h \in Handlers : SetHandler(t, h)
        \/ \E h \in Handlers : SetFailoverHandler(t, h)
        \/ \E up \in BOOLEAN : SetHandlerStatus(t, up)
        \/ SetHandlerStatusLoop(t)
        \/ \E up \in BOOLEAN : SetFailoverHandlerStatus(t, up)
        \/ SetFailoverHandlerStatusLoop(t)
        \/ ServeHTTP(t)
        \/ ServeHTTPFailover(t)


(***************************************************************************)
(* ------------------- UDP Listener and Conn (sessions) ------------------ *)
(* The Listener of package udp with a request limit: one read loop over    *)
(* the socket, one read loop per session, callers of Accept, of Shutdown   *)
(* and Close, and one handler per accepted session.                        *)
(***************************************************************************)

\* Remote addresses of clients.
Addrs == {"a1", "a2"}

\* Datagram payloads: a long one and a short one.
Payloads == {<<1, 2>>, <<3>>}

\* Lengths of the buffers a handler passes to Read.
BufLens == {1, 2}

\* The payload, the buffer length and the address used where the bytes and
\* the origin of a datagram do not matter.
ShortPayload == <<3>>
LongBuf == 2
FirstAddr == "a1"

\* Values of Listener.requests a listener is created with.
Limits == {0, 1}

\* Values of Listener.requests for the one-at-a-time client.
SeqLimits == {-1, 0, 1, 2}

\* Goroutines that call Shutdown or Close.
SThreads == {"s1", "s2"}

\* Greatest number of datagrams the clients send.
MaxDatagrams == 2

\* Greatest number of sessions the listener creates.
MaxConns == 2

ConnIds == 1..MaxConns
NoConn == 0


NoRead == [p |-> 0]

\* Listen, for a request limit among limits: the listener is accepting, has no
\* session, and its read loop runs. The session slots hold the fields newConn
\* gives a session.
UdpStart(limits) ==
    /\ nSent = 0
    /\ inbox = <<>>
    /\ pConnClosed = FALSE
    /\ accepting = TRUE
    /\ acceptChClosed = FALSE
    /\ conns = [a \in Addrs |-> NoConn]
    /\ lrequests \in limits
    /\ nConns = 0
    /\ cAddr = [c \in ConnIds |-> Nil]
    /\ msgs = [c \in ConnIds |-> <<>>]
    /\ crequests = [c \in ConnIds |-> 0]
    /\ doneCh = [c \in ConnIds |-> FALSE]
    /\ nDone = [c \in ConnIds |-> 0]
    /\ lastActivity = [c \in ConnIds |-> "old"]
    /\ rlpc = [c \in ConnIds |-> "none"]
    /\ hpc = [c \in ConnIds |-> "none"]
    /\ hGot = [c \in ConnIds |-> NoRead]
    /\ lpc = "read"
    /\ lAddr = Nil
    /\ lData = <<>>
    /\ lConn = NoConn
    /\ spc = [s \in SThreads |-> "idle"]
    /\ apc = "idle"
    /\ pending = [c \in ConnIds |-> <<>>]
    /\ nClose = 0
    /\ sawNoop = FALSE

UdpInit == UdpStart(Limits)

Min(a, b) == IF a < b THEN a ELSE b

\* copy(dst, src) for a destination of length p: the bytes copied.
Copy(p, msg) == SubSeq(msg, 1, Min(p, Len(msg)))

\* getConn: the session found for raddr can take one more datagram.
Reusable_OneMore(c) == lrequests <= 0 \/ crequests[c] <= lrequests

Reusable(c) == lrequests <= 0 \/ crequests[c] < lrequests

\* getConn: the test of l.accepting.
StillAccepting_Always == TRUE

StillAccepting == accepting

\* Shutdown: "if !l.accepting" the call returns at once.
AlreadyShutDown_Never == FALSE

AlreadyShutDown == ~accepting

\* Conn.readLoop: c.msgs = append(c.msgs, msg). The listener's read loop
\* allocates a new buffer for every datagram, so queued slices share no bytes.
Enqueue_Front(q, msg) == <<msg>> \o q

Enqueue_SharedBuffer(q, msg) ==
    LET Overwritten(old) ==
            [i \in 1..Len(old) |-> IF i <= Len(msg) THEN msg[i] ELSE old[i]]
    IN  Append([i \in 1..Len(q) |-> Overwritten(q[i])], msg)

Enqueue(q, msg) == Append(q, msg)

\* Conn.close, c.doneOnce.Do: the function runs in the first call only.
FirstClose_Always(c) == TRUE

FirstClose(c) == nDone[c] = 0

\* Conn.close: the number of executions of close(c.doneCh) after it.
AfterClose(c) == IF FirstClose(c) THEN Min(nDone[c] + 1, 2) ELSE nDone[c]

\* Conn.close and Conn.Close: the done signal fires (once), and the entry of
\* the session's remote address is deleted from the registry.
ConnClose(c) ==
    /\ doneCh' = [doneCh EXCEPT ![c] = TRUE]
    /\ nDone' = [nDone EXCEPT ![c] = AfterClose(c)]
    /\ conns' = [conns EXCEPT ![cAddr[c]] = NoConn]

\* Listener.close, "for k, v := range l.conns": the sessions it closes.
ForceClosed_None(c) == FALSE

ForceClosed(c) == \E a \in Addrs : conns[a] = c

\* Conn.readLoop, at a tick: time.Now().After(c.lastActivity.Add(c.timeout)).
DeadlinePassed_Never(c) == FALSE

DeadlinePassed(c) == lastActivity[c] = "old"

\* Nothing is on its way: the socket is drained, the read loop waits, and
\* every handed datagram has been read and counted.
Quiet ==
    /\ inbox = <<>>
    /\ lpc = "read"
    /\ \A c \in ConnIds : msgs[c] = <<>> /\ hpc[c] # "count"

\* The program runs until a goroutine panics.
Alive == lpc # "panic"

\* A client sends a datagram to the listener's socket.
ClientSend(a, d) ==
    /\ Alive
    /\ ~pConnClosed
    /\ nSent < MaxDatagrams
    /\ nSent' = nSent + 1
    /\ inbox' = Append(inbox, <<a, d>>)
    /\ UNCHANGED <<pConnClosed, accepting, acceptChClosed, conns, lrequests,
                   nConns, cAddr, msgs, crequests, doneCh, nDone, lastActivity, rlpc,
                   hpc, hGot, lpc, lAddr, lData, lConn, spc, apc, pending, nClose, sawNoop>>
    /\ UdpAlone

\* Listener.readLoop, ReadFrom and the start of getConn: take a datagram from
\* the socket and look its remote address up in the registry. A session that
\* is found and not exhausted is returned; one that is exhausted is closed;
\* then, if the listener does not accept any more, the datagram is dropped
\* with the listener-closed error.
ListenerGetConn ==
    /\ Alive
    /\ lpc = "read"
    /\ ~pConnClosed
    /\ inbox # <<>>
    /\ inbox' = Tail(inbox)
    /\ LET a == Head(inbox)[1]
           d == Head(inbox)[2]
           c == conns[a]
       IN  IF c # NoConn /\ Reusable(c)
              THEN /\ lpc' = "send"
                   /\ lAddr' = a /\ lData' = d /\ lConn' = c
                   /\ UNCHANGED <<doneCh, nDone, conns>>
              ELSE /\ IF c # NoConn
                         THEN ConnClose(c)
                         ELSE UNCHANGED <<doneCh, nDone, conns>>
                   /\ IF StillAccepting
                         THEN /\ lpc' = "gcNew"
                              /\ lAddr' = a /\ lData' = d /\ lConn' = NoConn
                         ELSE /\ lpc' = "read"
                              /\ UNCHANGED <<lAddr, lData, lConn>>
    /\ UNCHANGED <<nSent, pConnClosed, accepting, acceptChClosed, lrequests, nConns,
                   cAddr, msgs, crequests, lastActivity, rlpc, hpc, hGot, spc, apc, pending, nClose, sawNoop>>
    /\ UdpAlone

\* getConn: newConn, and the registration of the session under muConns.
ListenerNewConn ==
    /\ Alive
    /\ lpc = "gcNew"
    /\ nConns < MaxConns
    /\ LET c == nConns + 1
       IN  /\ nConns' = c
           /\ cAddr' = [cAddr EXCEPT ![c] = lAddr]
           /\ conns' = [conns EXCEPT ![lAddr] = c]
           /\ lConn' = c
    /\ lpc' = "gcPublish"
    /\ UNCHANGED <<nSent, inbox, pConnClosed, accepting, acceptChClosed, lrequests,
                   msgs, crequests, doneCh, nDone, lastActivity, rlpc, hpc, hGot, lAddr,
                   lData, spc, apc, pending, nClose, sawNoop>>
    /\ UdpAlone

\* getConn: l.acceptCh <- conn, received by a caller blocked in Accept, which
\* hands the session to its handler; then go conn.readLoop().
ListenerPublish ==
    /\ Alive
    /\ lpc = "gcPublish"
    /\ ~acceptChClosed
    /\ apc = "in"
    /\ apc' = "conn"
    /\ hpc' = [hpc EXCEPT ![lConn] = "idle"]
    /\ rlpc' = [rlpc EXCEPT ![lConn] = "loop"]
    /\ lpc' = "send"
    /\ UNCHANGED <<nSent, inbox, pConnClosed, accepting, acceptChClosed, conns,
                   lrequests, nConns, cAddr, msgs, crequests, doneCh, nDone, lastActivity,
                   hGot, lAddr, lData, lConn, spc, pending, nClose, sawNoop>>
    /\ UdpAlone

\* getConn: l.acceptCh <- conn on a closed channel panics.
ListenerPublishPanic ==
    /\ Alive
    /\ lpc = "gcPublish"
    /\ acceptChClosed
    /\ lpc' = "panic"
    /\ UNCHANGED <<nSent, inbox, pConnClosed, accepting, acceptChClosed, conns,
                   lrequests, nConns, cAddr, msgs, crequests, doneCh, nDone, lastActivity,
                   rlpc, hpc, hGot, lAddr, lData, lConn, spc, apc, pending, nClose, sawNoop>>
    /\ UdpAlone

\* Listener.readLoop, the select: conn.receiveCh <- buf[:n], received by the
\* session's read loop, which appends it to c.msgs.
ListenerSend ==
    /\ Alive
    /\ lpc = "send"
    /\ rlpc[lConn] = "loop"
    /\ msgs' = [msgs EXCEPT ![lConn] = Enqueue(@, lData)]
    /\ pending' = [pending EXCEPT ![lConn] = Append(@, lData)]
    /\ lpc' = "read"
    /\ lAddr' = Nil /\ lData' = <<>> /\ lConn' = NoConn
    /\ UNCHANGED <<nSent, inbox, pConnClosed, accepting, acceptChClosed, conns,
                   lrequests, nConns, cAddr, crequests, doneCh, nDone, lastActivity, rlpc,
                   hpc, hGot, spc, apc, nClose,
                   sawNoop>>
    /\ UdpAlone

\* Listener.readLoop, the select, "case <-conn.doneCh": the case can be taken
\* once the session is closed.
SessionGone_Ignored(c) == FALSE

SessionGone(c) == doneCh[c]

\* Listener.readLoop, the select: <-conn.doneCh, the datagram is dropped.
ListenerSendDone ==
    /\ Alive
    /\ lpc = "send"
    /\ SessionGone(lConn)
    /\ lpc' = "read"
    /\ lAddr' = Nil /\ lData' = <<>> /\ lConn' = NoConn
    /\ UNCHANGED <<nSent, inbox, pConnClosed, accepting, acceptChClosed, conns,
                   lrequests, nConns, cAddr, msgs, crequests, doneCh, nDone, lastActivity,
                   rlpc, hpc, hGot, spc, apc, pending, nClose, sawNoop>>
    /\ UdpAlone

\* Listener.readLoop: ReadFrom fails on the closed socket, the loop returns.
ListenerExit ==
    /\ Alive
    /\ lpc = "read"
    /\ pConnClosed
    /\ lpc' = "exit"
    /\ UNCHANGED <<nSent, inbox, pConnClosed, accepting, acceptChClosed, conns,
                   lrequests, nConns, cAddr, msgs, crequests, doneCh, nDone, lastActivity,
                   rlpc, hpc, hGot, lAddr, lData, lConn, spc, apc, pending, nClose, sawNoop>>
    /\ UdpAlone

\* Conn.Read(p), the call: the handler offers p on readCh or waits for doneCh.
ReadCall(c) ==
    /\ Alive
    /\ hpc[c] = "idle"
    /\ hpc' = [hpc EXCEPT ![c] = "read"]
    /\ UNCHANGED <<nSent, inbox, pConnClosed, accepting, acceptChClosed, conns,
                   lrequests, nConns, cAddr, msgs, crequests, doneCh, nDone, lastActivity,
                   rlpc, hGot, lpc, lAddr, lData, lConn, spc, apc,
                   pending, nClose, sawNoop>>
    /\ UdpAlone

\* Conn.readLoop serves a Read whose buffer p has length len: it takes p from
\* readCh while c.msgs is not empty, pops the first message, copies it into p
\* and sends n on sizeCh.
ReadData(c, len) ==
    /\ Alive
    /\ hpc[c] = "read"
    /\ rlpc[c] = "loop"
    /\ msgs[c] # <<>>
    /\ msgs' = [msgs EXCEPT ![c] = Tail(@)]
    /\ pending' = [pending EXCEPT ![c] = Tail(@)]
    /\ hGot' = [hGot EXCEPT ![c] =
                  [p |-> len, n |-> Len(Copy(len, Head(msgs[c]))),
                   data |-> Copy(len, Head(msgs[c])), expect |-> Head(pending[c])]]
    /\ hpc' = [hpc EXCEPT ![c] = "count"]
    /\ UNCHANGED <<nSent, inbox, pConnClosed, accepting, acceptChClosed, conns,
                   lrequests, nConns, cAddr, crequests, doneCh, nDone, lastActivity, rlpc,
                   lpc, lAddr, lData, lConn, spc, apc, nClose, sawNoop>>
    /\ UdpAlone

\* Conn.Read after it got n: lastActivity = time.Now(), requests++, return.
ReadCount(c) ==
    /\ Alive
    /\ hpc[c] = "count"
    /\ lastActivity' = [lastActivity EXCEPT ![c] = "recent"]
    /\ crequests' = [crequests EXCEPT ![c] = @ + 1]
    /\ hpc' = [hpc EXCEPT ![c] = "idle"]
    /\ hGot' = [hGot EXCEPT ![c] = NoRead]
    /\ UNCHANGED <<nSent, inbox, pConnClosed, accepting, acceptChClosed, conns,
                   lrequests, nConns, cAddr, msgs, doneCh, nDone, rlpc, lpc, lAddr, lData,
                   lConn, spc, apc, pending, nClose,
                   sawNoop>>
    /\ UdpAlone

\* Conn.Read, "case <-c.doneCh": the case can be taken once the channel is
\* closed.
DoneFired_Always(c) == TRUE

DoneFired(c) == doneCh[c]

\* Conn.Read, the select: <-c.doneCh, the call returns 0 and io.EOF.
ReadEOF(c) ==
    /\ Alive
    /\ hpc[c] = "read"
    /\ DoneFired(c)
    /\ hpc' = [hpc EXCEPT ![c] = "idle"]
    /\ UNCHANGED <<nSent, inbox, pConnClosed, accepting, acceptChClosed, conns,
                   lrequests, nConns, cAddr, msgs, crequests, doneCh, nDone, lastActivity,
                   rlpc, hGot, lpc, lAddr, lData, lConn, spc, apc,
                   pending, nClose, sawNoop>>
    /\ UdpAlone

\* Conn.Write: lastActivity = time.Now(), and the datagram goes to the backends.
ConnWrite(c) ==
    /\ Alive
    /\ hpc[c] = "idle"
    /\ lastActivity[c] # "recent"
    /\ lastActivity' = [lastActivity EXCEPT ![c] = "recent"]
    /\ UNCHANGED <<nSent, inbox, pConnClosed, accepting, acceptChClosed, conns,
                   lrequests, nConns, cAddr, msgs, crequests, doneCh, nDone, rlpc, hpc, hGot,
                   lpc, lAddr, lData, lConn, spc, apc,
                   pending, nClose, sawNoop>>
    /\ UdpAlone

\* The handler calls Conn.Close.
HandlerClose(c) ==
    /\ Alive
    /\ hpc[c] = "idle"
    /\ ConnClose(c)
    /\ UNCHANGED <<nSent, inbox, pConnClosed, accepting, acceptChClosed, lrequests,
                   nConns, cAddr, msgs, crequests, lastActivity, rlpc, hpc, hGot, lpc,
                   lAddr, lData, lConn, spc, apc, pending,
                   nClose, sawNoop>>
    /\ UdpAlone

\* The session's timeout elapses without a Read or a Write.
TimePasses(c) ==
    /\ Alive
    /\ lastActivity[c] = "recent"
    /\ lastActivity' = [lastActivity EXCEPT ![c] = "old"]
    /\ UNCHANGED <<nSent, inbox, pConnClosed, accepting, acceptChClosed, conns,
                   lrequests, nConns, cAddr, msgs, crequests, doneCh, nDone, rlpc, hpc, hGot,
                   lpc, lAddr, lData, lConn, spc, apc,
                   pending, nClose, sawNoop>>
    /\ UdpAlone

\* Conn.readLoop, a tick of its ticker with the deadline lastActivity + timeout
\* in the past: c.Close() and return. (A tick before the deadline changes
\* nothing.)
ConnTick(c) ==
    /\ Alive
    /\ rlpc[c] = "loop"
    /\ DeadlinePassed(c)
    /\ ConnClose(c)
    /\ rlpc' = [rlpc EXCEPT ![c] = "exit"]
    /\ UNCHANGED <<nSent, inbox, pConnClosed, accepting, acceptChClosed, lrequests,
                   nConns, cAddr, msgs, crequests, lastActivity, hpc, hGot, lpc, lAddr,
                   lData, lConn, spc, apc, pending, nClose, sawNoop>>
    /\ UdpAlone

\* Accept, the call: c := <-l.acceptCh blocks.
AcceptCall ==
    /\ Alive
    /\ apc # "in"
    /\ apc' = "in"
    /\ UNCHANGED <<nSent, inbox, pConnClosed, accepting, acceptChClosed, conns,
                   lrequests, nConns, cAddr, msgs, crequests, doneCh, nDone, lastActivity,
                   rlpc, hpc, hGot, lpc, lAddr, lData, lConn, spc, pending, nClose, sawNoop>>
    /\ UdpAlone

\* Accept on the closed accept channel: c == nil, errClosedListener.
AcceptClosed ==
    /\ Alive
    /\ apc = "in"
    /\ acceptChClosed
    /\ apc' = "errClosedListener"
    /\ UNCHANGED <<nSent, inbox, pConnClosed, accepting, acceptChClosed, conns,
                   lrequests, nConns, cAddr, msgs, crequests, doneCh, nDone, lastActivity,
                   rlpc, hpc, hGot, lpc, lAddr, lData, lConn, spc, pending,
                   nClose, sawNoop>>
    /\ UdpAlone

\* Shutdown(graceTimeout), and Close, which is Shutdown(0): under muConns, a
\* call that finds accepting false returns nil; the other clears it.
Shutdown(s) ==
    /\ Alive
    /\ spc[s] = "idle"
    /\ IF AlreadyShutDown
          THEN /\ sawNoop' = TRUE
               /\ UNCHANGED <<accepting, spc>>
          ELSE /\ accepting' = FALSE
               /\ spc' = [spc EXCEPT ![s] = "poll"]
               /\ UNCHANGED sawNoop
    /\ UNCHANGED <<nSent, inbox, pConnClosed, acceptChClosed, conns, lrequests,
                   nConns, cAddr, msgs, crequests, doneCh, nDone, lastActivity, rlpc, hpc,
                   hGot, lpc, lAddr, lData, lConn, apc,
                   pending, nClose>>
    /\ UdpAlone

\* Shutdown leaves its polling loop (the registry is empty, or graceTimeout has
\* elapsed) and runs Listener.close under muConns: the socket is closed, every
\* registered session is closed and deleted, the accept channel is closed.
ShutdownClose(s) ==
    /\ Alive
    /\ spc[s] = "poll"
    /\ pConnClosed' = TRUE
    /\ doneCh' = [c \in ConnIds |-> doneCh[c] \/ ForceClosed(c)]
    /\ nDone' = [c \in ConnIds |-> IF ForceClosed(c) THEN AfterClose(c) ELSE nDone[c]]
    /\ conns' = [a \in Addrs |-> NoConn]
    /\ acceptChClosed' = TRUE
    /\ nClose' = Min(nClose + 1, 2)
    /\ spc' = [spc EXCEPT ![s] = "idle"]
    /\ UNCHANGED <<nSent, inbox, accepting, lrequests, nConns, cAddr, msgs,
                   crequests, lastActivity, rlpc, hpc, hGot, lpc, lAddr, lData,
                   lConn, apc, pending, sawNoop>>
    /\ UdpAlone

\* The client sends its next datagram when the one before has been handled.
OrderlySend(d) == Quiet /\ ClientSend(FirstAddr, d)

\* The read loop of a listener that is not shut down.
ListenerLoop ==
    \/ ListenerGetConn
    \/ ListenerNewConn
    \/ ListenerPublish
    \/ ListenerSend
    \/ ListenerSendDone

\* The goroutines of the listener: its read loop and the caller of Accept.
ListenerSteps ==
    \/ ListenerGetConn
    \/ ListenerNewConn
    \/ ListenerPublish
    \/ ListenerPublishPanic
    \/ ListenerSend
    \/ ListenerSendDone
    \/ ListenerExit
    \/ AcceptCall
    \/ AcceptClosed

\* A handler that reads from its session into buffers of the lengths lens.
HandlerReads(c, lens) ==
    \/ ReadCall(c)
    \/ \E len \in lens : ReadData(c, len)
    \/ ReadCount(c)
    \/ ReadEOF(c)

\* Shutdown and Close race with the traffic of clients at two addresses;
\* sessions are read, closed by their handlers, and time out when nothing
\* was read from them.
UdpNext ==
    \/ \E a \in Addrs : ClientSend(a, ShortPayload)
    \/ ListenerSteps
    \/ \E c \in ConnIds :
          \/ HandlerReads(c, {LongBuf})
          \/ HandlerClose(c)
          \/ ConnTick(c)
    \/ \E s \in SThreads : Shutdown(s) \/ ShutdownClose(s)

\* The data path: datagrams of both lengths from one address are read into
\* buffers of both lengths, while sessions are replaced at the request
\* limit, written to, closed by their handlers, and time out.
UdpDataNext ==
    \/ \E d \in Payloads : ClientSend(FirstAddr, d)
    \/ ListenerGetConn
    \/ ListenerNewConn
    \/ ListenerPublish
    \/ ListenerSend
    \/ ListenerSendDone
    \/ AcceptCall
    \/ \E c \in ConnIds :
          \/ HandlerReads(c, BufLens)
          \/ ConnWrite(c)
          \/ HandlerClose(c)
          \/ TimePasses(c)
          \/ ConnTick(c)

\* A client that sends one datagram at a time: the next one leaves when the
\* one before has been read and counted. No session times out or is closed
\* by its handler, and the listener is not shut down.
UdpSeqNext ==
    \/ \E d \in Payloads : OrderlySend(d)
    \/ ListenerGetConn
    \/ ListenerNewConn
    \/ ListenerPublish
    \/ ListenerSend
    \/ AcceptCall
    \/ \E c \in ConnIds :
          \/ ReadCall(c)
          \/ \E len \in BufLens : ReadData(c, len)
          \/ ReadCount(c)
          \/ ReadEOF(c)

\* Idle sessions: clients at two addresses send, every session is accepted,
\* its handler reads or does not, nobody writes to a session or closes one,
\* and the listener is not shut down.
UdpIdleNext ==
    \/ \E a \in Addrs : ClientSend(a, ShortPayload)
    \/ ListenerLoop
    \/ AcceptCall
    \/ \E c \in ConnIds :
          \/ HandlerReads(c, {LongBuf})
          \/ TimePasses(c)
          \/ ConnTick(c)

\* The shared read loop among sessions that are read or left unread, closed
\* by their handlers or by their idle tickers, with an accept loop that calls
\* Accept again or stops doing so. The listener is not shut down.
UdpLoopNext ==
    \/ \E a \in Addrs : ClientSend(a, ShortPayload)
    \/ ListenerLoop
    \/ AcceptCall
    \/ \E c \in ConnIds :
          \/ HandlerReads(c, {LongBuf})
          \/ HandlerClose(c)
          \/ ConnTick(c)

\* The goroutine of the listener's read loop is scheduled; nothing is assumed
\* of the handlers, of the tickers and of the caller of Accept.
UdpLoopFairness == WF_vars(ListenerLoop)

\* The listener's read loop goes on, the accept loop calls Accept again, time
\* passes and the ticker of every session's read loop fires.
UdpIdleFairness ==
    /\ WF_vars(ListenerLoop)
    /\ WF_vars(AcceptCall)
    /\ \A c \in ConnIds : WF_vars(TimePasses(c)) /\ WF_vars(ConnTick(c))

(***************************************************************************)
(* ------------- UDP Listener with Session limits (conn.go) -------------- *)
(* The Listener whose getConn holds the listener's mutex from the lookup   *)
(* in the registry until the new session has been accepted and started.    *)
(* The sessions have no request limit (Session.Requests = 0); the queue of *)
(* a session and its reads are left out.                                   *)
(***************************************************************************)

ReadLoop == "readLoop"

\* Listen.
SessInit ==
    /\ smu = Free
    /\ sInbox = 0
    /\ sSent = 0
    /\ sAccepting = TRUE
    /\ sPConnClosed = FALSE
    /\ sAcceptChClosed = FALSE
    /\ sConns = {}
    /\ sNConns = 0
    /\ sDone = [c \in ConnIds |-> FALSE]
    /\ slpc = "read"
    /\ sNew = NoConn
    /\ shpc = [c \in ConnIds |-> "none"]
    /\ sapc = "idle"
    /\ sspc = [s \in SThreads |-> "idle"]

\* getConn: a session of the address with !conn.isClosed && conn.canRead().
SessReusable == {c \in sConns : ~sDone[c]}

\* A client sends a datagram to the listener's socket.
SessClientSend ==
    /\ ~sPConnClosed
    /\ sSent < MaxDatagrams
    /\ sSent' = sSent + 1
    /\ sInbox' = sInbox + 1
    /\ UNCHANGED <<smu, sAccepting, sPConnClosed, sAcceptChClosed, sConns, sNConns,
                   sDone, slpc, sNew, shpc, sapc, sspc>>
    /\ SessionAlone

\* Listener.readLoop: ReadFrom returns a datagram, getConn is called and
\* waits for the mutex.
SessReadFrom ==
    /\ slpc = "read"
    /\ ~sPConnClosed
    /\ sInbox > 0
    /\ sInbox' = sInbox - 1
    /\ slpc' = "lock"
    /\ UNCHANGED <<smu, sSent, sAccepting, sPConnClosed, sAcceptChClosed, sConns,
                   sNConns, sDone, sNew, shpc, sapc, sspc>>
    /\ SessionAlone

\* getConn takes the mutex. A session that can be used is returned and the
\* datagram dispatched to it; else, a listener that does not accept returns
\* the listener-closed error; in both cases the mutex is released at the
\* return. Else newConn is created and getConn goes on to publish it, with
\* the mutex held.
SessGetConn ==
    /\ slpc = "lock"
    /\ smu = Free
    /\ IF SessReusable # {} \/ ~sAccepting
          THEN /\ slpc' = "read"
               /\ UNCHANGED <<smu, sNConns, sNew>>
          ELSE /\ sNConns < MaxConns
               /\ sNConns' = sNConns + 1
               /\ sNew' = sNConns + 1
               /\ smu' = ReadLoop
               /\ slpc' = "publish"
    /\ UNCHANGED <<sInbox, sSent, sAccepting, sPConnClosed, sAcceptChClosed, sConns,
                   sDone, shpc, sapc, sspc>>
    /\ SessionAlone

\* getConn: l.acceptCh <- newConn, received by a caller blocked in Accept, which
\* hands the session to its handler.
SessPublish ==
    /\ slpc = "publish"
    /\ sapc = "in"
    /\ sapc' = "conn"
    /\ shpc' = [shpc EXCEPT ![sNew] = "accepted"]
    /\ slpc' = "start"
    /\ UNCHANGED <<smu, sInbox, sSent, sAccepting, sPConnClosed, sAcceptChClosed,
                   sConns, sNConns, sDone, sNew, sspc>>
    /\ SessionAlone

\* getConn, the select: the handler sends on StartCh; the session is
\* registered, its read loop started, and getConn returns it.
SessStart ==
    /\ slpc = "start"
    /\ shpc[sNew] = "accepted"
    /\ shpc' = [shpc EXCEPT ![sNew] = "serving"]
    /\ sConns' = sConns \cup {sNew}
    /\ smu' = Free
    /\ slpc' = "read"
    /\ sNew' = NoConn
    /\ UNCHANGED <<sInbox, sSent, sAccepting, sPConnClosed, sAcceptChClosed, sNConns,
                   sDone, sapc, sspc>>
    /\ SessionAlone

\* getConn, the select after the new session was closed: the receive from
\* doneCh is chosen and getConn returns without the session, or the receive
\* from the closed StartCh is chosen and the session is registered.
SessStartClosed(registered) ==
    /\ slpc = "start"
    /\ sDone[sNew]
    /\ sConns' = IF registered THEN sConns \cup {sNew} ELSE sConns
    /\ smu' = Free
    /\ slpc' = "read"
    /\ sNew' = NoConn
    /\ UNCHANGED <<sInbox, sSent, sAccepting, sPConnClosed, sAcceptChClosed, sNConns,
                   sDone, shpc, sapc, sspc>>
    /\ SessionAlone

\* Listener.readLoop: ReadFrom fails on the closed socket, the loop returns.
SessListenerExit ==
    /\ slpc = "read"
    /\ sPConnClosed
    /\ slpc' = "exit"
    /\ UNCHANGED <<smu, sInbox, sSent, sAccepting, sPConnClosed, sAcceptChClosed,
                   sConns, sNConns, sDone, sNew, shpc, sapc, sspc>>
    /\ SessionAlone

\* Conn.Close, called by the handler of the session (or by the session's read
\* loop at its idle timeout): c.close() closes StartCh and doneCh; the call
\* then waits for the listener's mutex.
SessConnClose(c) ==
    /\ shpc[c] \in {"accepted", "serving"}
    /\ sDone' = [sDone EXCEPT ![c] = TRUE]
    /\ shpc' = [shpc EXCEPT ![c] = "closing"]
    /\ UNCHANGED <<smu, sInbox, sSent, sAccepting, sPConnClosed, sAcceptChClosed,
                   sConns, sNConns, slpc, sNew, sapc, sspc>>
    /\ SessionAlone

\* Conn.Close, under the listener's mutex: delete(c.listener.conns, key).
SessConnCloseDelete(c) ==
    /\ shpc[c] = "closing"
    /\ smu = Free
    /\ sConns' = {}
    /\ shpc' = [shpc EXCEPT ![c] = "closed"]
    /\ UNCHANGED <<smu, sInbox, sSent, sAccepting, sPConnClosed, sAcceptChClosed,
                   sNConns, sDone, slpc, sNew, sapc, sspc>>
    /\ SessionAlone

\* Accept, the call: c := <-l.acceptCh blocks.
SessAcceptCall ==
    /\ sapc # "in"
    /\ sapc' = "in"
    /\ UNCHANGED <<smu, sInbox, sSent, sAccepting, sPConnClosed, sAcceptChClosed,
                   sConns, sNConns, sDone, slpc, sNew, shpc, sspc>>
    /\ SessionAlone

\* Accept on the closed accept channel: errClosedListener.
SessAcceptClosed ==
    /\ sapc = "in"
    /\ sAcceptChClosed
    /\ sapc' = "errClosedListener"
    /\ UNCHANGED <<smu, sInbox, sSent, sAccepting, sPConnClosed, sAcceptChClosed,
                   sConns, sNConns, sDone, slpc, sNew, shpc, sspc>>
    /\ SessionAlone

\* Shutdown(graceTimeout) or Close is called, and waits for the mutex.
SessShutdownCall(s) ==
    /\ sspc[s] = "idle"
    /\ sspc' = [sspc EXCEPT ![s] = "lock"]
    /\ UNCHANGED <<smu, sInbox, sSent, sAccepting, sPConnClosed, sAcceptChClosed,
                   sConns, sNConns, sDone, slpc, sNew, shpc, sapc>>
    /\ SessionAlone

\* Shutdown, under the mutex: a call that finds accepting false returns nil,
\* the other clears it and starts polling.
SessShutdownTest(s) ==
    /\ sspc[s] = "lock"
    /\ smu = Free
    /\ IF ~sAccepting
          THEN /\ sspc' = [sspc EXCEPT ![s] = "idle"]
               /\ UNCHANGED sAccepting
          ELSE /\ sAccepting' = FALSE
               /\ sspc' = [sspc EXCEPT ![s] = "poll"]
    /\ UNCHANGED <<smu, sInbox, sSent, sPConnClosed, sAcceptChClosed, sConns,
                   sNConns, sDone, slpc, sNew, shpc, sapc>>
    /\ SessionAlone

\* Shutdown leaves its polling loop: graceTimeout has elapsed (or the registry
\* was found empty), and l.close() is called.
SessShutdownBreak(s) ==
    /\ sspc[s] = "poll"
    /\ sspc' = [sspc EXCEPT ![s] = "close"]
    /\ UNCHANGED <<smu, sInbox, sSent, sAccepting, sPConnClosed, sAcceptChClosed,
                   sConns, sNConns, sDone, slpc, sNew, shpc, sapc>>
    /\ SessionAlone

\* Listener.close, under the mutex: the socket is closed, every registered
\* session is closed and deleted, the accept channel is closed; Shutdown
\* returns.
SessShutdownClose(s) ==
    /\ sspc[s] = "close"
    /\ smu = Free
    /\ sPConnClosed' = TRUE
    /\ sDone' = [c \in ConnIds |-> sDone[c] \/ c \in sConns]
    /\ sConns' = {}
    /\ sAcceptChClosed' = TRUE
    /\ sspc' = [sspc EXCEPT ![s] = "idle"]
    /\ UNCHANGED <<smu, sInbox, sSent, sAccepting, sNConns, slpc, sNew, shpc, sapc>>
    /\ SessionAlone

SessNext ==
    \/ SessClientSend
    \/ SessReadFrom
    \/ SessGetConn
    \/ SessPublish
    \/ SessStart
    \/ \E registered \in BOOLEAN : SessStartClosed(registered)
    \/ SessListenerExit
    \/ \E c \in ConnIds : SessConnClose(c) \/ SessConnCloseDelete(c)
    \/ SessAcceptCall
    \/ SessAcceptClosed
    \/ \E s \in SThreads :
          \/ SessShutdownCall(s)
          \/ SessShutdownTest(s)
          \/ SessShutdownBreak(s)
          \/ SessShutdownClose(s)

\* Every goroutine that can take a step takes one in the end; nothing makes
\* a client send, a goroutine call Accept, Shutdown or Close, or a handler
\* close its session.
SessFairness ==
    /\ WF_vars(SessReadFrom)
    /\ WF_vars(SessGetConn)
    /\ WF_vars(SessPublish)
    /\ WF_vars(SessStart)
    /\ WF_vars(\E registered \in BOOLEAN : SessStartClosed(registered))
    /\ WF_vars(SessListenerExit)
    /\ WF_vars(SessAcceptClosed)
    /\ \A c \in ConnIds : WF_vars(SessConnCloseDelete(c))
    /\ \A s \in SThreads :
          /\ SF_vars(SessShutdownTest(s))
          /\ WF_vars(SessShutdownBreak(s))
          /\ SF_vars(SessShutdownClose(s))

(***************************************************************************)
(* The TCP router (Router.ServeTCP): a router is configured, then serves   *)
(* one accepted connection, whose handler reads the connection to its end. *)
(***************************************************************************)

\* const defaultBufSize, the size of bufio.NewReader's buffer (4096 in the
\* source), scaled down with the lengths of the streams.
DefaultBufSize == 6

\* clientHelloServerName, const recordHeaderLen.
RecordHeaderLen == 5

\* clientHelloServerName, const recordTypeHandshake (0x16).
RecordTypeHandshake == 22

\* clientHelloServerName, const recordTypeSSLv2 (0x80).
RecordTypeSSLv2 == 128

\* The largest number of bytes a client sends after its first record.
MaxTrailing == 2

\* The bytes that follow the first record of a stream.
Trailing == IF MaxTrailing = 0 THEN {<<>>} ELSE {<<>>, [i \in 1..MaxTrailing |-> 90 + i]}

\* The first byte of a ClientHello's body stands for the server name that
\* its server_name extension carries.
SniCodes == {1, 2}

\* A TLS handshake record: the header with the record length in its bytes 4
\* and 5, and a body of that length.
Hello(recLen, code) ==
    <<RecordTypeHandshake, 3, 1, 0, recLen>> \o [i \in 1..recLen |-> IF i = 1 THEN code ELSE 10 + i]

\* The byte sequences a client sends before it closes its side: nothing, a
\* plain request shorter and longer than the buffer, an SSLv2 hello, a TLS
\* record cut in its header or in its body, and ClientHello records that fit
\* in the default buffer or not, followed by further bytes or not.
Streams ==
    {<<>>, <<71, 69, 84>>, <<71, 69, 84, 32, 47, 32, 72, 84>>,
     <<RecordTypeSSLv2, 46, 1>>, <<RecordTypeHandshake, 3>>,
     <<RecordTypeHandshake, 3, 1, 0, 3, 1>>}
    \cup {Hello(n, code) \o t :
            n \in {DefaultBufSize - RecordHeaderLen, DefaultBufSize - RecordHeaderLen + 2},
            code \in SniCodes, t \in Trailing}

\* The largest number of bytes one Read of the underlying connection
\* returns: the segments in which the stream arrives.
Chunks == {1, 4, 16}

\* The lengths of the buffers the handler reads into.
ReadLens == {1, 3}

\* A remote address that net.SplitHostPort cannot parse.
BadAddr == "bad"

RemoteAddrs == {"10.0.0.1", "10.0.0.2", BadAddr}

\* The routes given to AddRoute and AddRouteTLS: the rule's matchers, its
\* priority (the length of the rule) and its target.
PlainRoutes ==
    {[sni |-> "*", ip |-> "*", priority |-> 12, target |-> "tcp"],
     [sni |-> "*", ip |-> "10.0.0.2", priority |-> 20, target |-> "tcpIP"]}

TLSRoutes == {[sni |-> "a.com", ip |-> "*", priority |-> 16, target |-> "tlsA"]}

\* The hosts given to AddHTTPTLSConfig.
SniHosts == {"b.com"}

\* The rule HostSNI(`sniHost`) that HTTPSForwarder adds for a host.
HostRoute(sniHost, target) ==
    [sni |-> sniHost, ip |-> "*", priority |-> 16, target |-> target]

\* NewRouter: two empty muxers, no forwarder, no TLS configuration; no
\* connection has been accepted.
RouterInit ==
    /\ tcpMuxer = {}
    /\ tcpMuxerTLS = {}
    /\ httpForwarder = Nil
    /\ httpsForwarder = Nil
    /\ hostHTTPTLSConfig = {}
    /\ tpc = "config"
    /\ stream = <<>>
    /\ chunk = 0
    /\ remote = Nil
    /\ connPos = 0
    /\ connClosed = 0
    /\ connDeadline = "none"
    /\ served = <<>>
    /\ wrapped = FALSE
    /\ Peeked = <<>>
    /\ got = <<>>

\* s[n+1:], the rest of a slice after copy has taken n bytes.
Rest(n, s) == SubSeq(s, Min(n, Len(s)) + 1, Len(s))

\* Read(p) of the underlying connection with len(p) = n, at position pos of
\* the stream s that arrives in segments of ch bytes: the bytes read; none at
\* the end of the stream (io.EOF).
ConnRead(s, ch, pos, n) == SubSeq(s, pos + 1, pos + Min(Min(n, ch), Len(s) - pos))

\* bufio.NewReader(conn): nothing read, nothing buffered; no second reader.
NewReader ==
    [pos |-> 0, old |-> <<>>, oldErr |-> FALSE,
     size |-> 0, new |-> <<>>, newErr |-> FALSE]

\* bufio.Reader.fill of the reader on the connection: one Read into the free
\* part of the buffer.
OldFill(s, ch, R) ==
    LET d == ConnRead(s, ch, R.pos, DefaultBufSize - Len(R.old))
    IN  IF d = <<>>
           THEN [R EXCEPT !.oldErr = TRUE]
           ELSE [R EXCEPT !.old = @ \o d, !.pos = @ + Len(d)]

\* br.Peek(n) on the reader on the connection: fill until n bytes are
\* buffered, the buffer is full, or the connection fails.
RECURSIVE OldPeek(_, _, _, _)
OldPeek(s, ch, R, n) ==
    IF Len(R.old) < n /\ Len(R.old) < DefaultBufSize /\ ~R.oldErr
       THEN OldPeek(s, ch, OldFill(s, ch, R), n)
       ELSE R

\* bufio.Reader.Read(p), len(p) = n, of the reader on the connection, as the
\* larger reader calls it: buffered bytes first; with an empty buffer, a
\* read straight into p when p is at least as large as the buffer, else one
\* Read into the buffer, of which p takes its part and the buffer keeps the
\* rest.
OldRead(s, ch, R, n) ==
    IF R.old # <<>>
       THEN [r |-> [R EXCEPT !.old = Rest(n, @)], data |-> Copy(n, R.old)]
       ELSE IF R.oldErr
               THEN [r |-> R, data |-> <<>>]
               ELSE LET d == ConnRead(s, ch, R.pos,
                                      IF n >= DefaultBufSize THEN n ELSE DefaultBufSize)
                    IN  [r |-> [R EXCEPT !.pos = @ + Len(d),
                                         !.oldErr = (d = <<>>),
                                         !.old = Rest(n, d)],
                         data |-> Copy(n, d)]

\* br = bufio.NewReaderSize(br, size): the fill of the larger reader, one
\* Read of the first reader into the free part of its buffer.
NewFill(s, ch, R) ==
    LET x == OldRead(s, ch, R, R.size - Len(R.new))
    IN  IF x.data = <<>>
           THEN [x.r EXCEPT !.newErr = TRUE]
           ELSE [x.r EXCEPT !.new = @ \o x.data]

\* br.Peek(n) on the larger reader.
RECURSIVE NewPeek(_, _, _, _)
NewPeek(s, ch, R, n) ==
    IF Len(R.new) < n /\ Len(R.new) < R.size /\ ~R.newErr
       THEN NewPeek(s, ch, NewFill(s, ch, R), n)
       ELSE R

\* getPeeked(br): br.Peek(br.Buffered()), the bytes in br's own buffer.
getPeeked(R) == IF R.size > 0 THEN R.new ELSE R.old

\* tls.Server(...).Handshake() on the peeked record: the server name of the
\* ClientHello.
Sni(helloBytes) ==
    IF Len(helloBytes) <= RecordHeaderLen THEN ""
    ELSE IF helloBytes[RecordHeaderLen + 1] = 1 THEN "a.com"
    ELSE IF helloBytes[RecordHeaderLen + 1] = 2 THEN "b.com"
    ELSE ""

\* clientHelloServerName(br) on the stream s that arrives in segments of ch
\* bytes: the server name, whether the stream is TLS, the peeked bytes,
\* the error, and (pos) how many bytes have been read from the connection.
Peek(sni, tls, peeked, err, R) ==
    [sni |-> sni, tls |-> tls, peeked |-> peeked, err |-> err, pos |-> R.pos]

clientHelloServerName(s, ch) ==
    LET R1 == OldPeek(s, ch, NewReader, 1)
    IN  IF Len(R1.old) < 1
           THEN Peek("", FALSE, <<>>, TRUE, R1)
        ELSE IF R1.old[1] # RecordTypeHandshake
           THEN Peek("", R1.old[1] = RecordTypeSSLv2, getPeeked(R1), FALSE, R1)
        ELSE
    LET R2 == OldPeek(s, ch, R1, RecordHeaderLen)
    IN  IF Len(R2.old) < RecordHeaderLen
           THEN Peek("", FALSE, getPeeked(R2), FALSE, R2)
        ELSE
    LET recLen == R2.old[4] * 256 + R2.old[5]
        total == RecordHeaderLen + recLen
        R3 == IF total > DefaultBufSize
                 THEN NewPeek(s, ch, [R2 EXCEPT !.size = total], total)
                 ELSE OldPeek(s, ch, R2, total)
    IN  IF Len(getPeeked(R3)) < total
           THEN Peek("", TRUE, getPeeked(R3), FALSE, R3)
           ELSE Peek(Sni(Copy(total, getPeeked(R3))), TRUE, getPeeked(R3), FALSE, R3)

\* NewConnData that drops the server name.
NewConnData_NoName(serverName, raddr) ==
    [err |-> raddr = BadAddr, serverName |-> "", remoteIP |-> raddr]

\* NewConnData(serverName, conn): the server name and the IP of the remote
\* address; an error when the remote address cannot be split.
NewConnData(serverName, raddr) ==
    [err |-> raddr = BadAddr, serverName |-> serverName, remoteIP |-> raddr]

\* Muxer.hasRoutes.
hasRoutes(mux) == mux # {}

\* Muxer.Match(connData): the target of the matching route of the highest
\* priority, Nil when no route matches.
Match(mux, connData) ==
    LET matching == {r \in mux :
                        /\ r.sni = "*" \/ r.sni = connData.serverName
                        /\ r.ip = "*" \/ r.ip = connData.remoteIP}
    IN  IF matching = {}
           THEN Nil
           ELSE (CHOOSE r \in matching :
                    \A q \in matching : q.priority <= r.priority).target

\* ServeTCP, "if r.tcpMuxer.hasRoutes() && !r.tcpMuxerTLS.hasRoutes()": the
\* connection is matched without a peek.
NoPeek == hasRoutes(tcpMuxer) /\ ~hasRoutes(tcpMuxerTLS)

\* ServeTCP ends with conn.Close(): no handler is invoked.
Rejected_AndServed(pos, deadline) ==
    [served |-> <<"tcp">>, closed |-> 1, wrapped |-> FALSE, peeked |-> <<>>,
     pos |-> pos, deadline |-> deadline]

Rejected(pos, deadline) ==
    [served |-> <<>>, closed |-> 1, wrapped |-> FALSE, peeked |-> <<>>,
     pos |-> pos, deadline |-> deadline]

\* ServeTCP ends with target.ServeTCP(conn), on the connection itself.
Handed(target) ==
    [served |-> <<target>>, closed |-> 0, wrapped |-> FALSE, peeked |-> <<>>,
     pos |-> 0, deadline |-> "set"]

\* ServeTCP ends with target.ServeTCP(r.GetConn(conn, peeked)), after the
\* deadlines have been removed.
HandedPeeked(target, pk) ==
    [served |-> <<target>>, closed |-> 0, wrapped |-> TRUE, peeked |-> pk.peeked,
     pos |-> pk.pos, deadline |-> "none"]

\* ServeTCP without a peek: the plain muxer's match is served, any other
\* connection is closed.
ServeNoPeek(raddr) ==
    LET connData == NewConnData("", raddr)
        target == Match(tcpMuxer, connData)
    IN  IF connData.err THEN Rejected(0, "set")
        ELSE IF target # Nil THEN Handed(target)
        ELSE Rejected(0, "set")

\* ServeTCP after a peek without error.
ServePeeked(pk, raddr) ==
    LET connData == NewConnData(pk.sni, raddr)
        target == Match(tcpMuxer, connData)
        targetTLS == Match(tcpMuxerTLS, connData)
    IN  IF connData.err THEN Rejected(pk.pos, "none")
        ELSE IF ~pk.tls
           THEN IF target # Nil THEN HandedPeeked(target, pk)
                ELSE IF httpForwarder # Nil THEN HandedPeeked(httpForwarder, pk)
                ELSE Rejected(pk.pos, "none")
        ELSE IF targetTLS # Nil THEN HandedPeeked(targetTLS, pk)
        ELSE IF httpsForwarder # Nil THEN HandedPeeked(httpsForwarder, pk)
        ELSE Rejected(pk.pos, "none")

\* Router.ServeTCP(conn), what becomes of a connection from raddr with the
\* stream s in segments of ch bytes.
Serve(s, ch, raddr) ==
    IF NoPeek THEN ServeNoPeek(raddr)
    ELSE LET pk == clientHelloServerName(s, ch)
         IN  IF pk.err THEN Rejected(pk.pos, "set") ELSE ServePeeked(pk, raddr)

\* Router.AddRoute(rule, target).
AddRoute(route) ==
    /\ tpc = "config"
    /\ route \notin tcpMuxer
    /\ tcpMuxer' = tcpMuxer \cup {route}
    /\ UNCHANGED <<tcpMuxerTLS, httpForwarder, httpsForwarder, hostHTTPTLSConfig, tpc,
                   stream, chunk, remote, connPos, connClosed, connDeadline, served,
                   wrapped, Peeked, got>>
    /\ RouterAlone

\* Router.AddRouteTLS(rule, target, config).
AddRouteTLS(route) ==
    /\ tpc = "config"
    /\ route \notin tcpMuxerTLS
    /\ tcpMuxerTLS' = tcpMuxerTLS \cup {route}
    /\ UNCHANGED <<tcpMuxer, httpForwarder, httpsForwarder, hostHTTPTLSConfig, tpc,
                   stream, chunk, remote, connPos, connClosed, connDeadline, served,
                   wrapped, Peeked, got>>
    /\ RouterAlone

\* Router.AddHTTPTLSConfig(sniHost, config).
AddHTTPTLSConfig(sniHost) ==
    /\ tpc = "config"
    /\ sniHost \notin hostHTTPTLSConfig
    /\ hostHTTPTLSConfig' = hostHTTPTLSConfig \cup {sniHost}
    /\ UNCHANGED <<tcpMuxer, tcpMuxerTLS, httpForwarder, httpsForwarder, tpc,
                   stream, chunk, remote, connPos, connClosed, connDeadline, served,
                   wrapped, Peeked, got>>
    /\ RouterAlone

\* Router.HTTPForwarder(handler).
HTTPForwarder ==
    /\ tpc = "config"
    /\ httpForwarder = Nil
    /\ httpForwarder' = "http"
    /\ UNCHANGED <<tcpMuxer, tcpMuxerTLS, httpsForwarder, hostHTTPTLSConfig, tpc,
                   stream, chunk, remote, connPos, connClosed, connDeadline, served,
                   wrapped, Peeked, got>>
    /\ RouterAlone

\* Router.HTTPSForwarder(handler): a TLS route to the handler for every host
\* with a TLS configuration, and the handler as the HTTPS forwarder.
HTTPSForwarder ==
    /\ tpc = "config"
    /\ httpsForwarder = Nil
    /\ tcpMuxerTLS' = tcpMuxerTLS \cup {HostRoute(h, "https") : h \in hostHTTPTLSConfig}
    /\ httpsForwarder' = "https"
    /\ UNCHANGED <<tcpMuxer, httpForwarder, hostHTTPTLSConfig, tpc,
                   stream, chunk, remote, connPos, connClosed, connDeadline, served,
                   wrapped, Peeked, got>>
    /\ RouterAlone

\* Router.ServeTCP(conn) on an accepted connection, on which the acceptor
\* has set deadlines.
ServeTCP(s, ch, raddr) ==
    /\ tpc = "config"
    /\ tpc' = "served"
    /\ stream' = s
    /\ chunk' = ch
    /\ remote' = raddr
    /\ LET out == Serve(s, ch, raddr)
       IN  /\ served' = out.served
           /\ connClosed' = out.closed
           /\ wrapped' = out.wrapped
           /\ Peeked' = out.peeked
           /\ connPos' = out.pos
           /\ connDeadline' = out.deadline
    /\ UNCHANGED <<tcpMuxer, tcpMuxerTLS, httpForwarder, httpsForwarder,
                   hostHTTPTLSConfig, got>>
    /\ RouterAlone

\* The handler reads from the connection it was given into a buffer of
\* length n. Conn.Read: the peeked bytes that are left first, then Read of
\* the underlying connection.
HandlerRead(n) ==
    /\ tpc = "served"
    /\ served # <<>>
    /\ IF wrapped /\ Len(Peeked) > 0
          THEN /\ got' = got \o Copy(n, Peeked)
               /\ Peeked' = Rest(n, Peeked)
               /\ UNCHANGED connPos
          ELSE /\ ConnRead(stream, chunk, connPos, n) # <<>>
               /\ got' = got \o ConnRead(stream, chunk, connPos, n)
               /\ connPos' = connPos + Len(ConnRead(stream, chunk, connPos, n))
               /\ UNCHANGED Peeked
    /\ UNCHANGED <<tcpMuxer, tcpMuxerTLS, httpForwarder, httpsForwarder,
                   hostHTTPTLSConfig, tpc, stream, chunk, remote, connClosed,
                   connDeadline, served, wrapped>>
    /\ RouterAlone

RouterNext ==
    \/ \E route \in PlainRoutes : AddRoute(route)
    \/ \E route \in TLSRoutes : AddRouteTLS(route)
    \/ \E h \in SniHosts : AddHTTPTLSConfig(h)
    \/ HTTPForwarder
    \/ HTTPSForwarder
    \/ \E s \in Streams, ch \in Chunks, raddr \in RemoteAddrs : ServeTCP(s, ch, raddr)
    \/ \E n \in ReadLens : HandlerRead(n)

\* The router at rest, while another component is checked.
RouterParked == RouterInit

(***************************************************************************)
(* The rule muxer of package tcp: Muxer.AddRoute and Muxer.Match.  A rule  *)
(* is one matcher call, kept as the matcher's name and its arguments; a    *)
(* host is the sequence of its characters.                                 *)
(***************************************************************************)
MaxRoutes == 2

Wildcard == <<"*">>

\* strings.ToLower on one character of the alphabet used here.
LowerChar(c) == IF c = "A" THEN "a" ELSE c

ToLower(s) == [i \in 1..Len(s) |-> LowerChar(s[i])]

KeepDot(s) == s

\* strings.TrimSuffix(host, ".")
TrimDot(s) == IF Len(s) > 0 /\ s[Len(s)] = "." THEN SubSeq(s, 1, Len(s) - 1) ELSE s

\* A host name of ASCII letters and dots; "*" and a non-ASCII letter are
\* not part of one.
ValidHost(h) == Len(h) > 0 /\ \A i \in 1..Len(h) : h[i] \in {"a", "A", "b", "."}

\* hostSNI(tree, hosts...) returns an error.
hostSNIErr(hosts) ==
    \/ Len(hosts) = 0
    \/ \E i \in 1..Len(hosts) : hosts[i] # Wildcard /\ ~ValidHost(hosts[i])

\* The matcher hostSNI builds, on ConnData.serverName.
hostSNIMatch(hosts, serverName) ==
    IF hosts[1] = Wildcard THEN TRUE
    ELSE IF serverName = <<>> THEN FALSE
    ELSE \E i \in 1..Len(hosts) :
            \/ hosts[i] = Wildcard
            \/ TrimDot(ToLower(hosts[i])) = TrimDot(serverName)

\* net.ParseIP / net.ParseCIDR accept the argument.
ParsesIP(a) == a \in {"10.0.0.1", "10.0.0.0/24"}

clientIPErr(ips) == Len(ips) = 0 \/ \E i \in 1..Len(ips) : ~ParsesIP(ips[i])

clientIPMatch(ips, remoteIP) ==
    \E i \in 1..Len(ips) :
        \/ ips[i] = remoteIP
        \/ ips[i] = "10.0.0.0/24" /\ remoteIP \in {"10.0.0.1", "10.0.0.2"}

\* Matcher names are looked up without regard to case.
MatcherName(name) ==
    CASE name \in {"HostSNI", "hostsni", "HOSTSNI"} -> "HostSNI"
      [] name \in {"ClientIP", "clientip", "CLIENTIP"} -> "ClientIP"
      [] OTHER -> Nil

Rule(name, args) == [name |-> name, args |-> args]

WellFormedRules ==
    { Rule("HostSNI", <<<<"a">>>>),
      Rule("HostSNI", <<<<"A">>>>),
      Rule("HOSTSNI", <<<<"b">>>>),
      Rule("HostSNI", <<<<"a">>, <<"b">>>>),
      Rule("HostSNI", <<Wildcard>>),
      Rule("HostSNI", <<<<"b">>, Wildcard>>),
      Rule("HostSNI", <<<<"a", ".">>>>),
      Rule("ClientIP", <<"10.0.0.1">>) }

MalformedRules ==
    { Rule("", <<>>),
      Rule("rulewithnotmatcher", <<>>),
      Rule("HostSNI", <<>>),
      Rule("HostSNI", <<<<>>>>),
      Rule("HostSNI", <<<<"e-acute">>>>),
      Rule("HostSNI", <<Wildcard \o <<".", "b">>>>),
      Rule("ClientIP", <<>>),
      Rule("ClientIP", <<"">>),
      Rule("ClientIP", <<"invalid">>) }

Rules == WellFormedRules \cup MalformedRules

Priorities == {0, 10000}

ServerNames == {<<>>, <<"a">>, <<"b">>, <<"a", ".">>}

ConnDatas == [serverName : ServerNames, remoteIP : {"10.0.0.1", "10.0.0.2", "11.0.0.1"}]

RECURSIVE ArgsLen(_)
ArgsLen(args) ==
    IF args = <<>> THEN 0
    ELSE Len(Head(args)) + 2 + (IF Len(args) > 1 THEN 2 ELSE 0) + ArgsLen(Tail(args))

\* len(rule): the name, the parentheses, each argument in its quotes and
\* ", " between two arguments.
RuleLen(rule) ==
    IF rule.name = "" THEN 0 ELSE Len(rule.name) + 2 + ArgsLen(rule.args)

RuleErr_Never(rule) == FALSE

\* The rule does not parse into a matcher tree.
RuleErr(rule) ==
    CASE MatcherName(rule.name) = "HostSNI" -> hostSNIErr(rule.args)
      [] MatcherName(rule.name) = "ClientIP" -> clientIPErr(rule.args)
      [] OTHER -> TRUE

\* tree.match(meta)
RuleMatches(rule, meta) ==
    IF MatcherName(rule.name) = "HostSNI"
    THEN hostSNIMatch(rule.args, meta.serverName)
    ELSE clientIPMatch(rule.args, meta.remoteIP)

\* A priority that is not positive is computed from the length of the rule.
RoutePriority(rule, priority) == IF priority <= 0 THEN RuleLen(rule) ELSE priority

\* Route x is evaluated before route y.
Before_Lowest(x, y) == x.priority < y.priority

Before_PriorityOnly(x, y) == x.priority > y.priority

Before(x, y) ==
    \/ x.priority > y.priority
    \/ x.priority = y.priority /\ RuleLen(x.rule) > RuleLen(y.rule)

\* Muxer.Match(meta): the handler of the first matching route in evaluation
\* order, a function of the set of routes.
MuxMatch(rs, meta) ==
    LET matching == {rs[i] : i \in {j \in 1..Len(rs) : RuleMatches(rs[j].rule, meta)}}
        top == {r \in matching : \A q \in matching : ~Before(q, r)}
    IN  IF matching = {} THEN Nil ELSE (CHOOSE r \in top : TRUE).handler

MuxHasRoutes == Len(routes) > 0

MuxerInit == routes = <<>> /\ addErr = FALSE /\ nAdded = 0

\* Muxer.AddRoute(rule, priority, handler); the handler is named after its
\* rule, and the route remembers the priority it was given.
MuxAddRoute(rule, priority) ==
    /\ nAdded < MaxRoutes
    /\ IF RuleErr(rule)
       THEN /\ addErr' = TRUE
            /\ UNCHANGED <<routes, nAdded>>
       ELSE /\ routes' = Append(routes, [rule |-> rule,
                                         given |-> priority,
                                         priority |-> RoutePriority(rule, priority),
                                         handler |-> rule])
            /\ addErr' = FALSE
            /\ nAdded' = nAdded + 1
    /\ MuxerAlone

MuxerNext == \E rule \in Rules, priority \in Priorities : MuxAddRoute(rule, priority)

\* The muxer at rest, while another component is checked.
MuxerParked == MuxerInit

(***************************************************************************)
(* Proxy.ServeUDP for one session.  Variant "lConn" is ServeUDP of         *)
(* pkg/udp/proxy.go: connCopy from the listener's socket to the session    *)
(* and an anonymous goroutine from the session to the socket.  Variant     *)
(* "dial" dials the backend and runs connCopy in both directions.          *)
(***************************************************************************)
MaxCopied == 1

ProxyVariants == {"lConn", "dial"}

Directions == {"toSession", "toBackend"}

ProxyInit(variants) ==
    /\ pvariant \in variants
    /\ servePc = "start"
    /\ copyPc = [g \in Directions |-> "idle"]
    /\ connIsClosed = FALSE
    /\ backendIsClosed = FALSE
    /\ backendFailed = FALSE
    /\ copiedN = [g \in Directions |-> 0]

\* src.Read returns data.
SrcReads(g) ==
    IF g = "toSession" THEN ~backendFailed /\ ~backendIsClosed ELSE ~connIsClosed

\* dst.Write returns an error.
DstFails(g) ==
    IF g = "toSession" THEN connIsClosed ELSE backendFailed \/ backendIsClosed

\* The goroutine of direction g sends its result on errChan: connCopy does,
\* the anonymous goroutine of pkg/udp/proxy.go does not.
Reports(g) == pvariant = "dial" \/ g = "toSession"

\* ServeUDP of the "lConn" variant starts its two goroutines.
ServeUDPStart ==
    /\ servePc = "start"
    /\ pvariant = "lConn"
    /\ copyPc' = [g \in Directions |-> "copy"]
    /\ servePc' = "wait1"
    /\ UNCHANGED <<pvariant, connIsClosed, backendIsClosed, backendFailed, copiedN>>
    /\ ProxyAlone

\* ServeUDP of the "dial" variant: net.Dial succeeds and both connCopy
\* goroutines start.
ServeUDPDial ==
    /\ servePc = "start"
    /\ pvariant = "dial"
    /\ copyPc' = [g \in Directions |-> "copy"]
    /\ servePc' = "wait1"
    /\ UNCHANGED <<pvariant, connIsClosed, backendIsClosed, backendFailed, copiedN>>
    /\ ProxyAlone

\* net.Dial fails: ServeUDP returns without a goroutine.
ServeUDPDialFails ==
    /\ servePc = "start"
    /\ pvariant = "dial"
    /\ servePc' = "returned"
    /\ UNCHANGED <<pvariant, copyPc, connIsClosed, backendIsClosed, backendFailed, copiedN>>
    /\ ProxyAlone

\* One datagram goes from src to dst.
connCopyStep(g) ==
    /\ copyPc[g] = "copy"
    /\ SrcReads(g)
    /\ ~DstFails(g)
    /\ copiedN[g] < MaxCopied
    /\ copiedN' = [copiedN EXCEPT ![g] = @ + 1]
    /\ UNCHANGED <<pvariant, servePc, copyPc, connIsClosed, backendIsClosed, backendFailed>>
    /\ ProxyAlone

\* The copy loop ends: src.Read or dst.Write returned an error.
connCopyEnds(g) ==
    /\ copyPc[g] = "copy"
    /\ ~SrcReads(g) \/ DstFails(g)
    /\ copyPc' = [copyPc EXCEPT ![g] = IF Reports(g) THEN "send" ELSE "done"]
    /\ UNCHANGED <<pvariant, servePc, connIsClosed, backendIsClosed, backendFailed, copiedN>>
    /\ ProxyAlone

\* errCh <- err in connCopy meets <-errChan in ServeUDP.
connCopySend(g) ==
    /\ copyPc[g] = "send"
    /\ servePc \in {"wait1", "wait2"}
    /\ copyPc' = [copyPc EXCEPT ![g] = "close"]
    /\ servePc' = IF servePc = "wait1" /\ pvariant = "dial" THEN "wait2" ELSE "closing"
    /\ UNCHANGED <<pvariant, connIsClosed, backendIsClosed, backendFailed, copiedN>>
    /\ ProxyAlone

\* dst.Close() at the end of connCopy.
connCopyClose(g) ==
    /\ copyPc[g] = "close"
    /\ copyPc' = [copyPc EXCEPT ![g] = "done"]
    /\ connIsClosed' = (connIsClosed \/ g = "toSession")
    /\ backendIsClosed' = (backendIsClosed \/ g = "toBackend")
    /\ UNCHANGED <<pvariant, servePc, backendFailed, copiedN>>
    /\ ProxyAlone

\* conn.Close(), the deferred connBackend.Close() of the "dial" variant, and
\* the return of ServeUDP.
ServeUDPReturn ==
    /\ servePc = "closing"
    /\ connIsClosed' = TRUE
    /\ backendIsClosed' = (backendIsClosed \/ pvariant = "dial")
    /\ servePc' = "returned"
    /\ UNCHANGED <<pvariant, copyPc, backendFailed, copiedN>>
    /\ ProxyAlone

\* The listener closes the session: idle timeout or Shutdown.
SessionExpires ==
    /\ servePc # "start"
    /\ ~connIsClosed
    /\ connIsClosed' = TRUE
    /\ UNCHANGED <<pvariant, servePc, copyPc, backendIsClosed, backendFailed, copiedN>>
    /\ ProxyAlone

\* The backend socket starts to return errors.
BackendFails ==
    /\ servePc # "start"
    /\ ~backendFailed
    /\ backendFailed' = TRUE
    /\ UNCHANGED <<pvariant, servePc, copyPc, connIsClosed, backendIsClosed, copiedN>>
    /\ ProxyAlone

ProxyNext ==
    \/ ServeUDPStart
    \/ ServeUDPDial
    \/ ServeUDPDialFails
    \/ \E g \in Directions : connCopyStep(g)
    \/ \E g \in Directions : connCopyEnds(g)
    \/ \E g \in Directions : connCopySend(g)
    \/ \E g \in Directions : connCopyClose(g)
    \/ ServeUDPReturn
    \/ SessionExpires
    \/ BackendFails

\* ServeUDP at rest, while another component is checked.
ProxyParked == ProxyInit({"dial"})

(***************************************************************************)
(* The backend socket of one client: backendsConn.WriteTo and the receive  *)
(* goroutine started by Listener.getBackendsConn.                          *)
(***************************************************************************)
MaxHandled == 3

BackendAddrs == {"b1", "b2"}

\* An address the proxy never writes to.
Stranger == "x"

NoDatagram == "none"

BackendInit ==
    /\ targets = {}
    /\ written = {}
    /\ bpc = "read"
    /\ inHand = NoDatagram
    /\ bConnClosed = FALSE
    /\ fwdLog = <<>>

Known_Anyone(addr) == TRUE

\* _, exists := bConn.targets[addr.String()]
Known(addr) == addr \in targets

\* backendsConn.WriteTo(p, target): the target is recorded, then written to.
BackendWriteTo(target) ==
    /\ targets' = targets \cup {target}
    /\ written' = written \cup {target}
    /\ targets' # targets
    /\ UNCHANGED <<bpc, inHand, bConnClosed, fwdLog>>
    /\ BackendAlone

\* bConn.ReadFrom returns a datagram from addr.
BackendReadFrom(addr) ==
    /\ bpc = "read"
    /\ ~bConnClosed
    /\ Len(fwdLog) < MaxHandled
    /\ inHand' = addr
    /\ bpc' = "check"
    /\ UNCHANGED <<targets, written, bConnClosed, fwdLog>>
    /\ BackendAlone

\* bConn.ReadFrom returns an error: the goroutine returns when the socket is
\* closed, goes on after a temporary error, and closes the socket after any
\* other error.
BackendReadError(temporary) ==
    /\ bpc = "read"
    /\ IF bConnClosed THEN bpc' = "done" /\ UNCHANGED bConnClosed
       ELSE IF temporary THEN UNCHANGED <<bpc, bConnClosed>>
       ELSE bpc' = "done" /\ bConnClosed' = TRUE
    /\ bpc' # bpc
    /\ UNCHANGED <<targets, written, inHand, fwdLog>>
    /\ BackendAlone

\* The datagram of a source that is not a target is dropped.
BackendCheck ==
    /\ bpc = "check"
    /\ IF Known(inHand)
       THEN bpc' = "write" /\ UNCHANGED <<inHand, fwdLog>>
       ELSE /\ bpc' = "read"
            /\ fwdLog' = Append(fwdLog, [src |-> inHand, forwarded |-> FALSE])
            /\ inHand' = NoDatagram
    /\ UNCHANGED <<targets, written, bConnClosed>>
    /\ BackendAlone

\* l.pConn.WriteTo(buf[:n], raddr): the datagram goes to the client; after a
\* temporary error the loop goes on, after another error the goroutine
\* returns.
BackendForward(err) ==
    /\ bpc = "write"
    /\ bpc' = IF err = "error" THEN "done" ELSE "read"
    /\ fwdLog' = Append(fwdLog, [src |-> inHand, forwarded |-> err = "nil"])
    /\ inHand' = NoDatagram
    /\ UNCHANGED <<targets, written, bConnClosed>>
    /\ BackendAlone

\* The idle ticker of getBackendsConn closes the socket.
BackendIdleClose ==
    /\ ~bConnClosed
    /\ bConnClosed' = TRUE
    /\ UNCHANGED <<targets, written, bpc, inHand, fwdLog>>
    /\ BackendAlone

BackendNext ==
    \/ \E target \in BackendAddrs : BackendWriteTo(target)
    \/ \E addr \in BackendAddrs \cup {Stranger} : BackendReadFrom(addr)
    \/ \E temporary \in BOOLEAN : BackendReadError(temporary)
    \/ BackendCheck
    \/ \E err \in {"nil", "temporary", "error"} : BackendForward(err)
    \/ BackendIdleClose

\* The backend socket at rest, while another component is checked.
BackendParked == BackendInit

(***************************************************************************)
(* Conn.Write of the session variant: the count of responses and the       *)
(* Close it triggers.  Responses is an int: not set, it is 0.              *)
(***************************************************************************)
MaxResponses == 2

MaxWrites == 6

WriteInit(responses) ==
    /\ sessionResponses \in responses
    /\ receiveCount = 0
    /\ isClosed = FALSE
    /\ nWrites = 0
    /\ nCloses = 0
    /\ writeErr = FALSE

\* Conn.Write(p): l.pConn.WriteTo returns err; after a successful write the
\* count goes up and, above Responses, the session is closed.
SessionWrite(err) ==
    /\ nWrites < MaxWrites
    /\ nWrites' = nWrites + 1
    /\ writeErr' = err
    /\ IF err
       THEN UNCHANGED <<receiveCount, isClosed, nCloses>>
       ELSE /\ receiveCount' = receiveCount + 1
            /\ IF receiveCount' > sessionResponses
               THEN isClosed' = TRUE /\ nCloses' = nCloses + 1
               ELSE UNCHANGED <<isClosed, nCloses>>
    /\ UNCHANGED sessionResponses
    /\ WriteAlone

WriteNext == \E err \in BOOLEAN : SessionWrite(err)

\* The session at rest, while another component is checked.
WriteParked == WriteInit({0})

(***************************************************************************)
(* The Kubernetes ACME store, called by one goroutine at a time.  The      *)
(* Kubernetes client is the environment: a Patch or Create succeeds or     *)
(* returns an error.                                                       *)
(***************************************************************************)
Resolvers == {"resolver01", "resolver02"}

Accounts == {"john", "not-john"}

\* A value of []*CertAndStore: the nil slice or a slice of certificates.
NilSlice == [isNil |-> TRUE, certs |-> <<>>]

Slice(certs) == [isNil |-> FALSE, certs |-> certs]

CertLists ==
    {NilSlice, Slice(<<"example.org">>), Slice(<<"example.org", "sub.example.org">>)}

\* No entry in the map.
NoStoredData == [present |-> FALSE, Account |-> Nil, Certificates |-> NilSlice]

\* &StoredData{}
EmptyStoredData == [present |-> TRUE, Account |-> Nil, Certificates |-> NilSlice]

\* NewKubernetesStore: storedData is an empty map.
StoreInit ==
    /\ storedData = [r \in Resolvers |-> NoStoredData]
    /\ kSaved = {}
    /\ kLast = [op |-> "none"]

\* KubernetesStore.get: an absent entry becomes &StoredData{}.
get(sd, resolverName) ==
    IF ~sd[resolverName].present THEN [sd EXCEPT ![resolverName] = EmptyStoredData] ELSE sd

KeepAccount(sd, resolverName, account) == get(sd, resolverName)

\* storedData.Account = account, on the entry get returned.
SetAccount(sd, resolverName, account) ==
    [get(sd, resolverName) EXCEPT ![resolverName].Account = account]

\* storedData.Certificates = certs, on the entry get returned.
SetCertificates(sd, resolverName, certs) ==
    [get(sd, resolverName) EXCEPT ![resolverName].Certificates = certs]

GetAccount(resolverName) ==
    /\ storedData' = get(storedData, resolverName)
    /\ kLast' = [op |-> "GetAccount", r |-> resolverName,
                 val |-> storedData'[resolverName].Account, err |-> FALSE]
    /\ UNCHANGED kSaved
    /\ StoreAlone

\* SaveAccount: the entry is changed before save is called; err is what
\* save returns.
SaveAccount(resolverName, account, err) ==
    /\ storedData' = SetAccount(storedData, resolverName, account)
    /\ kSaved' = kSaved \cup {resolverName}
    /\ kLast' = [op |-> "SaveAccount", r |-> resolverName, val |-> account, err |-> err]
    /\ StoreAlone

GetCertificates(resolverName) ==
    /\ storedData' = get(storedData, resolverName)
    /\ kLast' = [op |-> "GetCertificates", r |-> resolverName,
                 val |-> storedData'[resolverName].Certificates, err |-> FALSE]
    /\ UNCHANGED kSaved
    /\ StoreAlone

SaveCertificates(resolverName, certs, err) ==
    /\ storedData' = SetCertificates(storedData, resolverName, certs)
    /\ kSaved' = kSaved \cup {resolverName}
    /\ kLast' = [op |-> "SaveCertificates", r |-> resolverName, val |-> certs, err |-> err]
    /\ StoreAlone

StoreNext ==
    \/ \E r \in Resolvers : GetAccount(r)
    \/ \E r \in Resolvers, a \in Accounts, err \in BOOLEAN : SaveAccount(r, a, err)
    \/ \E r \in Resolvers : GetCertificates(r)
    \/ \E r \in Resolvers, cs \in CertLists, err \in BOOLEAN : SaveCertificates(r, cs, err)

\* The store at rest, while another component is checked.
StoreParked == StoreInit

(***************************************************************************)
(* SetHandlerStatus and SetFailoverHandlerStatus called from different     *)
(* goroutines.  Each holds its own mutex; fn(f.handlerStatus ||            *)
(* f.failoverStatus) evaluates its argument and then calls fn.             *)
(***************************************************************************)
MaxSetterCalls == 3

RaceUpdaters == {1, 2}

StatusSetters == {"SetHandlerStatus", "SetFailoverHandlerStatus"}

NotCalled == [called |-> FALSE, up |-> FALSE]

RaceInit(statuses) ==
    /\ rcStatus \in [StatusSetters -> statuses]
    /\ rcMu = [w \in StatusSetters |-> Free]
    /\ rcPc = [t \in FThreads |-> "idle"]
    /\ rcWhich = [t \in FThreads |-> "SetHandlerStatus"]
    /\ rcArg = [t \in FThreads |-> FALSE]
    /\ rcI = [t \in FThreads |-> 1]
    /\ rcLast = [u \in RaceUpdaters |-> NotCalled]
    /\ rcCalls = 0

\* A setter, from the Lock to the test of the status: the early return, or
\* the assignment that precedes the range loop.
RaceSetStatus(t, which, up) ==
    /\ rcPc[t] = "idle"
    /\ rcMu[which] = Free
    /\ rcCalls < MaxSetterCalls
    /\ rcCalls' = rcCalls + 1
    /\ IF up = rcStatus[which]
       THEN UNCHANGED <<rcStatus, rcMu, rcPc, rcWhich, rcI>>
       ELSE /\ rcStatus' = [rcStatus EXCEPT ![which] = up]
            /\ rcMu' = [rcMu EXCEPT ![which] = t]
            /\ rcPc' = [rcPc EXCEPT ![t] = "eval"]
            /\ rcWhich' = [rcWhich EXCEPT ![t] = which]
            /\ rcI' = [rcI EXCEPT ![t] = 1]
    /\ UNCHANGED <<rcArg, rcLast>>
    /\ RaceAlone

\* The range loop: the argument of the next call is evaluated, or the loop
\* is over and the deferred Unlock runs.
RaceEvalArg(t) ==
    /\ rcPc[t] = "eval"
    /\ IF rcI[t] \in RaceUpdaters
       THEN /\ rcArg' = [rcArg EXCEPT ![t] =
                            rcStatus["SetHandlerStatus"] \/ rcStatus["SetFailoverHandlerStatus"]]
            /\ rcPc' = [rcPc EXCEPT ![t] = "call"]
            /\ UNCHANGED <<rcMu, rcI>>
       ELSE /\ rcMu' = [rcMu EXCEPT ![rcWhich[t]] = Free]
            /\ rcPc' = [rcPc EXCEPT ![t] = "idle"]
            /\ rcI' = [rcI EXCEPT ![t] = 1]
            /\ UNCHANGED rcArg
    /\ UNCHANGED <<rcStatus, rcWhich, rcLast, rcCalls>>
    /\ RaceAlone

\* fn runs with the argument evaluated for it.
RaceCallUpdater(t) ==
    /\ rcPc[t] = "call"
    /\ rcLast' = [rcLast EXCEPT ![rcI[t]] = [called |-> TRUE, up |-> rcArg[t]]]
    /\ rcI' = [rcI EXCEPT ![t] = @ + 1]
    /\ rcArg' = [rcArg EXCEPT ![t] = FALSE]
    /\ rcPc' = [rcPc EXCEPT ![t] = "eval"]
    /\ UNCHANGED <<rcStatus, rcMu, rcWhich, rcCalls>>
    /\ RaceAlone

RaceNext ==
    \/ \E t \in FThreads, which \in StatusSetters, up \in BOOLEAN : RaceSetStatus(t, which, up)
    \/ \E t \in FThreads : RaceEvalArg(t)
    \/ \E t \in FThreads : RaceCallUpdater(t)

\* The setters at rest, while another component is checked.
RaceParked == RaceInit({FALSE})

(* ------------------ The idle timer of a session, on a clock ------------- *)

\* time.NewTicker(c.timeout / 10): the timeout, in periods of the ticker.
TicksPerTimeout == 10

timeout == TicksPerTimeout

\* The zero value of time.Time, which a Conn's lastActivity has until it is
\* assigned.
ZeroTime == 0

\* The wall clock when the session is made: far more than a timeout after the
\* zero time.
WallClock == ZeroTime + timeout + 1

\* Longest time followed after the session is made, and most Reads and Writes.
MaxElapsed == 24

MaxOps == 3

\* newConn: the session as the composite literal leaves it; lastActivity is not
\* among the fields it sets. getConn starts readLoop at once.
IdleInit ==
    /\ tNow = WallClock
    /\ tCreated = WallClock
    /\ tLastActivity = ZeroTime
    /\ tLoopPc = "loop"
    /\ tOps = 0
    /\ tLastOp = "none"

\* readLoop, "time.Now().After(deadline)" with deadline = lastActivity + timeout.
Expired(last, now) == now > last + timeout

\* Conn.Read, once readLoop has copied a datagram: lastActivity = time.Now().
IdleRead_NoStamp ==
    /\ tLoopPc = "loop"
    /\ tOps < MaxOps
    /\ tOps' = tOps + 1
    /\ tLastOp' = "Read"
    /\ UNCHANGED <<tNow, tCreated, tLastActivity, tLoopPc>>
    /\ IdleAlone

IdleRead ==
    /\ tLoopPc = "loop"
    /\ tOps < MaxOps
    /\ tLastActivity' = tNow
    /\ tOps' = tOps + 1
    /\ tLastOp' = "Read"
    /\ UNCHANGED <<tNow, tCreated, tLoopPc>>
    /\ IdleAlone

\* Conn.Write: lastActivity = time.Now(), whether or not the session is closed.
IdleWrite ==
    /\ tOps < MaxOps
    /\ tLastActivity' = tNow
    /\ tOps' = tOps + 1
    /\ tLastOp' = "Write"
    /\ UNCHANGED <<tNow, tCreated, tLoopPc>>
    /\ IdleAlone

\* readLoop, "case <-ticker.C": one period later the deadline is compared with
\* the clock; past it, c.Close() and return.
IdleTick ==
    /\ tLoopPc = "loop"
    /\ tNow < WallClock + MaxElapsed
    /\ tNow' = tNow + 1
    /\ tLoopPc' = IF Expired(tLastActivity, tNow') THEN "exit" ELSE "loop"
    /\ UNCHANGED <<tCreated, tLastActivity, tOps, tLastOp>>
    /\ IdleAlone

IdleNext ==
    \/ IdleRead
    \/ IdleWrite
    \/ IdleTick

\* The idle timer at rest, while another component is checked.
IdleParked == IdleInit

(***************************************************************************)
(* Proxy.ServeUDP of the variant that writes to the shared backend socket: *)
(* its goroutine reads from the session and writes to the target, and      *)
(* ServeUDP waits for the goroutine's result.                              *)
(***************************************************************************)
\* Most datagrams the goroutine takes from the session.
MaxRelayed == 4

\* What conn.backendsConn.WriteTo returns: nil, a net.Error that is Temporary
\* or Timeout, or another error.
WriteResults == {"nil", "temporary", "error"}

RelayInit ==
    /\ yCopy = "read"
    /\ yServe = "wait"
    /\ yDoneCh = FALSE
    /\ yWrites = <<>>
    /\ yErr = "none"
    /\ yLogged = FALSE

\* conn.Read(buf) returns a datagram.
RelayRead ==
    /\ yCopy = "read"
    /\ Len(yWrites) < MaxRelayed
    /\ yCopy' = "write"
    /\ UNCHANGED <<yServe, yDoneCh, yWrites, yErr, yLogged>>
    /\ RelayAlone

\* conn.Read(buf) returns an error, which it does only once the session is
\* closed: the goroutine is to send nil.
RelayReadClosed ==
    /\ yCopy = "read"
    /\ yDoneCh
    /\ yCopy' = "send"
    /\ yErr' = "nil"
    /\ UNCHANGED <<yServe, yDoneCh, yWrites, yLogged>>
    /\ RelayAlone

\* conn.backendsConn.WriteTo(buf[:n], p.target): after nil and after a
\* temporary error the loop goes on; another error is to be sent.
RelayWriteTo(res) ==
    /\ yCopy = "write"
    /\ yWrites' = Append(yWrites, res)
    /\ yCopy' = IF res = "error" THEN "send" ELSE "read"
    /\ yErr' = IF res = "error" THEN "error" ELSE yErr
    /\ UNCHANGED <<yServe, yDoneCh, yLogged>>
    /\ RelayAlone

\* errChan <- err meets err := <-errChan: the goroutine returns; ServeUDP
\* logs an error that is not nil, and returns.
RelaySend ==
    /\ yCopy = "send"
    /\ yServe = "wait"
    /\ yCopy' = "done"
    /\ yServe' = "returned"
    /\ yLogged' = (yErr # "nil")
    /\ UNCHANGED <<yDoneCh, yWrites, yErr>>
    /\ RelayAlone

\* The session is closed by its idle ticker or by the listener.
RelaySessionCloses ==
    /\ ~yDoneCh
    /\ yDoneCh' = TRUE
    /\ UNCHANGED <<yCopy, yServe, yWrites, yErr, yLogged>>
    /\ RelayAlone

RelayNext ==
    \/ RelayRead
    \/ RelayReadClosed
    \/ \E res \in WriteResults : RelayWriteTo(res)
    \/ RelaySend
    \/ RelaySessionCloses

\* ServeUDP at rest, while another component is checked.
RelayParked == RelayInit

(***************************************************************************)
(* Proxy.ServeUDP of the variant that keeps a map of sessions per remote   *)
(* address under Proxy.lock.  The listener hands over one session at a     *)
(* time: getConn holds its mutex until the session has started or is       *)
(* closed, and makes a new session for an address only when no session of  *)
(* that address is open and can still read.                                *)
(***************************************************************************)
\* Most sessions the listener hands to ServeUDP.
MaxServed == 3

Served == 1..MaxServed

\* NewProxy: an empty map; no session has been made.
LockInit ==
    /\ qReaders = {}
    /\ qWriter = NoConn
    /\ qConns = [a \in Addrs |-> NoConn]
    /\ qAddr = [c \in Served |-> Nil]
    /\ qIsClosed = [c \in Served |-> FALSE]
    /\ qCanRead = [c \in Served |-> TRUE]
    /\ qPc = [c \in Served |-> "new"]

\* sync.RWMutex: RLock and Lock can be taken.
CanRLock == qWriter = NoConn

CanLock == qWriter = NoConn /\ qReaders = {}

\* Listener.getConn makes session c for the address a and publishes it, and
\* ServeUDP(conn) is called: p.lock.RLock().
QServeUDP(c, a) ==
    /\ qPc[c] = "new"
    /\ \A d \in Served : d < c => qPc[d] # "new"
    /\ \A d \in Served : qPc[d] \notin {"check", "start"}
    /\ \A d \in Served :
          qAddr[d] = a /\ qPc[d] \notin {"new", "check"} => qIsClosed[d] \/ ~qCanRead[d]
    /\ CanRLock
    /\ qReaders' = qReaders \cup {c}
    /\ qAddr' = [qAddr EXCEPT ![c] = a]
    /\ qPc' = [qPc EXCEPT ![c] = "check"]
    /\ UNCHANGED <<qWriter, qConns, qIsClosed, qCanRead>>
    /\ LockAlone

\* "if c, ok := p.conns[raddr]; ok && !c.isClosed": conn.Close() and return;
\* otherwise p.lock.RUnlock().
QCheck(c) ==
    /\ qPc[c] = "check"
    /\ LET stored == qConns[qAddr[c]]
       IN  IF stored # NoConn /\ ~qIsClosed[stored]
              THEN /\ qIsClosed' = [qIsClosed EXCEPT ![c] = TRUE]
                   /\ qPc' = [qPc EXCEPT ![c] = "returned"]
                   /\ UNCHANGED qReaders
              ELSE /\ qReaders' = qReaders \ {c}
                   /\ qPc' = [qPc EXCEPT ![c] = "start"]
                   /\ UNCHANGED qIsClosed
    /\ UNCHANGED <<qWriter, qConns, qAddr, qCanRead>>
    /\ LockAlone

\* conn.StartCh <- struct{}{}, received by getConn.
QStart(c) ==
    /\ qPc[c] = "start"
    /\ qPc' = [qPc EXCEPT ![c] = "store"]
    /\ UNCHANGED <<qReaders, qWriter, qConns, qAddr, qIsClosed, qCanRead>>
    /\ LockAlone

\* p.lock.Lock(); p.conns[raddr] = conn; p.lock.Unlock().
QStore(c) ==
    /\ qPc[c] = "store"
    /\ CanLock
    /\ qConns' = [qConns EXCEPT ![qAddr[c]] = c]
    /\ qPc' = [qPc EXCEPT ![c] = "dial"]
    /\ UNCHANGED <<qReaders, qWriter, qAddr, qIsClosed, qCanRead>>
    /\ LockAlone

\* net.Dial: after an error ServeUDP returns; otherwise the two connCopy
\* goroutines run.
QDial(c, ok) ==
    /\ qPc[c] = "dial"
    /\ qPc' = [qPc EXCEPT ![c] = IF ok THEN "serve" ELSE "returned"]
    /\ UNCHANGED <<qReaders, qWriter, qConns, qAddr, qIsClosed, qCanRead>>
    /\ LockAlone

\* The session has had as many Reads as Session.Requests allows.
QReachLimit(c) ==
    /\ qPc[c] = "serve"
    /\ qCanRead[c]
    /\ qCanRead' = [qCanRead EXCEPT ![c] = FALSE]
    /\ UNCHANGED <<qReaders, qWriter, qConns, qAddr, qIsClosed, qPc>>
    /\ LockAlone

\* Conn.Close by the session's idle ticker or by the listener.
QSessionCloses(c) ==
    /\ qPc[c] \in {"serve", "returned"}
    /\ ~qIsClosed[c]
    /\ qIsClosed' = [qIsClosed EXCEPT ![c] = TRUE]
    /\ UNCHANGED <<qReaders, qWriter, qConns, qAddr, qCanRead, qPc>>
    /\ LockAlone

\* Both connCopy goroutines have reported: "<-errChan" twice, then
\* p.lock.Lock().
QFinishLock(c) ==
    /\ qPc[c] = "serve"
    /\ CanLock
    /\ qWriter' = c
    /\ qPc' = [qPc EXCEPT ![c] = "finish"]
    /\ UNCHANGED <<qReaders, qConns, qAddr, qIsClosed, qCanRead>>
    /\ LockAlone

\* conn.Close(); delete(p.conns, raddr); p.lock.Unlock(); return.
QFinish(c) ==
    /\ qPc[c] = "finish"
    /\ qIsClosed' = [qIsClosed EXCEPT ![c] = TRUE]
    /\ qConns' = [qConns EXCEPT ![qAddr[c]] = NoConn]
    /\ qWriter' = NoConn
    /\ qPc' = [qPc EXCEPT ![c] = "returned"]
    /\ UNCHANGED <<qReaders, qAddr, qCanRead>>
    /\ LockAlone

LockNext ==
    \E c \in Served :
        \/ \E a \in Addrs : QServeUDP(c, a)
        \/ QCheck(c)
        \/ QStart(c)
        \/ QStore(c)
        \/ \E ok \in BOOLEAN : QDial(c, ok)
        \/ QReachLimit(c)
        \/ QSessionCloses(c)
        \/ QFinishLock(c)
        \/ QFinish(c)

\* The proxy at rest, while another component is checked.
LockParked == LockInit

\* The Listener with Session limits at rest, while another component is
\* checked.
SessParked == SessInit

\* The UDP listener at rest, while another component is checked.
UdpParked == UdpStart({0})

\* The Failover unit at rest, while another component is checked.
FailoverParked == FailoverInit /\ ~wantsHealthCheck

\* Each specification starts one component and leaves the others at rest.
UdpStarts == UdpInit /\ FailoverParked /\ SessParked /\ RouterParked /\ MuxerParked /\ ProxyParked /\ BackendParked /\ WriteParked /\ StoreParked /\ RaceParked /\ IdleParked /\ RelayParked /\ LockParked

SessStarts == SessInit /\ FailoverParked /\ UdpParked /\ RouterParked /\ MuxerParked /\ ProxyParked /\ BackendParked /\ WriteParked /\ StoreParked /\ RaceParked /\ IdleParked /\ RelayParked /\ LockParked

UdpSeqStarts == UdpStart(SeqLimits) /\ FailoverParked /\ SessParked /\ RouterParked /\ MuxerParked /\ ProxyParked /\ BackendParked /\ WriteParked /\ StoreParked /\ RaceParked /\ IdleParked /\ RelayParked /\ LockParked

FailoverStarts == FailoverInit /\ UdpParked /\ SessParked /\ RouterParked /\ MuxerParked /\ ProxyParked /\ BackendParked /\ WriteParked /\ StoreParked /\ RaceParked /\ IdleParked /\ RelayParked /\ LockParked

RouterStarts == RouterInit /\ FailoverParked /\ UdpParked /\ SessParked /\ MuxerParked /\ ProxyParked /\ BackendParked /\ WriteParked /\ StoreParked /\ RaceParked /\ IdleParked /\ RelayParked /\ LockParked

MuxerStarts ==
    MuxerInit /\ FailoverParked /\ UdpParked /\ SessParked /\ RouterParked /\ ProxyParked
    /\ BackendParked /\ WriteParked /\ StoreParked /\ RaceParked /\ IdleParked /\ RelayParked /\ LockParked

ProxyStarts ==
    /\ ProxyInit(ProxyVariants)
    /\ FailoverParked /\ UdpParked /\ SessParked /\ RouterParked /\ MuxerParked
    /\ BackendParked /\ WriteParked /\ StoreParked /\ RaceParked /\ IdleParked /\ RelayParked /\ LockParked

BackendStarts ==
    /\ BackendInit
    /\ FailoverParked /\ UdpParked /\ SessParked /\ RouterParked /\ MuxerParked
    /\ ProxyParked /\ WriteParked /\ StoreParked /\ RaceParked /\ IdleParked /\ RelayParked /\ LockParked

WriteStarts ==
    /\ WriteInit(0..MaxResponses)
    /\ FailoverParked /\ UdpParked /\ SessParked /\ RouterParked /\ MuxerParked
    /\ ProxyParked /\ BackendParked /\ StoreParked /\ RaceParked /\ IdleParked /\ RelayParked /\ LockParked

StoreStarts ==
    /\ StoreInit
    /\ FailoverParked /\ UdpParked /\ SessParked /\ RouterParked /\ MuxerParked
    /\ ProxyParked /\ BackendParked /\ WriteParked /\ RaceParked /\ IdleParked /\ RelayParked /\ LockParked

RaceStarts ==
    /\ RaceInit(BOOLEAN)
    /\ FailoverParked /\ UdpParked /\ SessParked /\ RouterParked /\ MuxerParked
    /\ ProxyParked /\ BackendParked /\ WriteParked /\ StoreParked /\ IdleParked /\ RelayParked /\ LockParked

IdleStarts ==
    /\ IdleInit
    /\ FailoverParked /\ UdpParked /\ SessParked /\ RouterParked /\ MuxerParked
    /\ ProxyParked /\ BackendParked /\ WriteParked /\ StoreParked /\ RaceParked /\ RelayParked /\ LockParked

SpecIdle == IdleStarts /\ [][IdleNext]_vars

RelayStarts ==
    /\ RelayInit
    /\ FailoverParked /\ UdpParked /\ SessParked /\ RouterParked /\ MuxerParked
    /\ ProxyParked /\ BackendParked /\ WriteParked /\ StoreParked /\ RaceParked
    /\ IdleParked /\ LockParked

SpecRelay == RelayStarts /\ [][RelayNext]_vars

LockStarts ==
    /\ LockInit
    /\ FailoverParked /\ UdpParked /\ SessParked /\ RouterParked /\ MuxerParked
    /\ ProxyParked /\ BackendParked /\ WriteParked /\ StoreParked /\ RaceParked
    /\ IdleParked /\ RelayParked

SpecProxyLock == LockStarts /\ [][LockNext]_vars

SpecFailoverRace == RaceStarts /\ [][RaceNext]_vars

SpecStore == StoreStarts /\ [][StoreNext]_vars

SpecWrite == WriteStarts /\ [][WriteNext]_vars

SpecBackend == BackendStarts /\ [][BackendNext]_vars

SpecProxy == ProxyStarts /\ [][ProxyNext]_vars

SpecMuxer == MuxerStarts /\ [][MuxerNext]_vars

SpecRouter == RouterStarts /\ [][RouterNext]_vars

SpecUDP == UdpStarts /\ [][UdpNext]_vars

SpecUDPData == UdpStarts /\ [][UdpDataNext]_vars

SpecUDPSeq == UdpSeqStarts /\ [][UdpSeqNext]_vars

SpecSession == SessStarts /\ [][SessNext]_vars /\ SessFairness

SpecUDPIdle == UdpStarts /\ [][UdpIdleNext]_vars /\ UdpIdleFairness

SpecUDPLoop == UdpStarts /\ [][UdpLoopNext]_vars /\ UdpLoopFairness

SpecFailover == FailoverStarts /\ [][FailoverNext]_vars

(***************************************************************************)
(* --------------------------- Failover claims --------------------------- *)
(***************************************************************************)

Setters == {"SetHandlerStatus", "SetFailoverHandlerStatus"}

\* C2: ServeHTTP serves a request by exactly one of three outcomes, chosen from
\* the statuses it reads: the primary handler (and nothing else) if the primary
\* status is up; otherwise, the failover status being read next, the failover
\* handler if that is up; otherwise a 503 with neither handler invoked.
C2_ServeHTTPDispatch ==
    [][\A t \in FThreads :
          /\ ServeHTTP(t) =>
                IF handlerStatus
                   THEN /\ fpc'[t] = "idle"
                        /\ fLast'.op = "ServeHTTP"
                        /\ fLast'.outcome = "primary"
                        /\ fLast'.invoked = <<handler>>
                   ELSE /\ fpc'[t] = "serve2"
                        /\ fLast' = fLast
          /\ ServeHTTPFailover(t) =>
                /\ fpc'[t] = "idle"
                /\ fLast'.op = "ServeHTTP"
                /\ ~fLast'.hs
                /\ IF failoverStatus
                      THEN /\ fLast'.outcome = "failover"
                           /\ fLast'.invoked = <<failoverHandler>>
                      ELSE /\ fLast'.outcome = "503"
                           /\ fLast'.invoked = <<>>
      ]_fvars

\* C2 witness: a request answered 503 while both statuses are down.
C2_Witness ==
    /\ fLast.op = "ServeHTTP"
    /\ fLast.outcome = "503"
    /\ ~handlerStatus /\ ~failoverStatus

\* C3: a setter call that changes a status invokes every registered updater
\* exactly once, in order, before it returns, each with primary OR failover as
\* they are after the change.
C3_UpdatersGetOr ==
    /\ [](/\ fLast.op \in Setters /\ fLast.changed =>
                Called(fLast.log) = updaters
          /\ \A t \in FThreads :
                /\ fpc[t] \notin {"shsLoop", "sfhsLoop"} => fLog[t] = <<>>
                /\ fpc[t] = "shsLoop" => handlerStatus = fUp[t]
                /\ fpc[t] = "sfhsLoop" => failoverStatus = fUp[t])
    /\ [][\A t \in FThreads :
             Len(fLog'[t]) > Len(fLog[t]) =>
                /\ Len(fLog'[t]) = Len(fLog[t]) + 1
                /\ fLog'[t][Len(fLog'[t])][1] = updaters[Len(fLog'[t])]
                /\ fLog'[t][Len(fLog'[t])][2] = (handlerStatus \/ failoverStatus)
                /\ (~handlerStatus /\ failoverStatus) => fLog'[t][Len(fLog'[t])][2]
                /\ (~handlerStatus /\ ~failoverStatus) => ~fLog'[t][Len(fLog'[t])][2]
       ]_fvars

\* C3 witness: the primary went down while the failover was up, and every
\* updater was told "up".
C3_Witness ==
    /\ fLast.op = "SetHandlerStatus"
    /\ fLast.changed /\ ~fLast.up
    /\ Len(fLast.log) = MaxUpdaters
    /\ \A i \in 1..Len(fLast.log) : fLast.log[i][2]
    /\ failoverStatus

\* C4: a setter called with the value the status already has changes nothing
\* (statuses, handlers, updaters) and invokes no updater.
C4_SameStatusNoOp ==
    [][\A t \in FThreads, up \in BOOLEAN :
          /\ (SetHandlerStatus(t, up) /\ up = handlerStatus) =>
                /\ UNCHANGED <<handlerStatus, failoverStatus, handler,
                               failoverHandler, updaters, fLog, fpc>>
                /\ fLast'.log = <<>>
          /\ (SetFailoverHandlerStatus(t, up) /\ up = failoverStatus) =>
                /\ UNCHANGED <<handlerStatus, failoverStatus, handler,
                               failoverHandler, updaters, fLog, fpc>>
                /\ fLast'.log = <<>>
      ]_fvars

\* C4 witness: a no-op call on a unit with registered updaters.
C4_Witness ==
    /\ fLast.op = "SetFailoverHandlerStatus"
    /\ ~fLast.changed
    /\ fLast.up = failoverStatus
    /\ updaters # <<>>

\* Two SetHandlerStatus calls in a row with the same value have returned.
TwiceInARow ==
    /\ fLast.op = "SetHandlerStatus"
    /\ fLast.prev.op = "SetHandlerStatus"
    /\ fLast.prev.up = fLast.up

\* C5 as stated: of two SetHandlerStatus calls in a row with the same value, the
\* first invokes every updater exactly once and the second none.
C5_AsStated ==
    TwiceInARow =>
        /\ fLast.prev.called = updaters
        /\ fLast.log = <<>>

\* C5 amended: of two SetHandlerStatus calls in a row with the same value, the
\* second invokes no updater, and the first invokes every updater exactly once
\* if it changed the status and none if the status already had that value.
C5_DedupSecondCall ==
    TwiceInARow =>
        /\ fLast.prev.called = (IF fLast.prev.changed THEN updaters ELSE <<>>)
        /\ ~fLast.changed
        /\ fLast.log = <<>>

\* C5 witness: the first call changed the status and reached the updaters.
C5_Witness ==
    /\ TwiceInARow
    /\ fLast.prev.changed
    /\ fLast.prev.called = updaters
    /\ Len(updaters) = MaxUpdaters

(***************************************************************************)
(* ----------------------------- UDP claims ------------------------------ *)
(***************************************************************************)

\* C1: once accepting is false, no session is created, registered in the
\* registry or published on the accept channel, in any interleaving of the
\* read loop's getConn with Shutdown.
C1_NoAdmissionOnceNotAccepting ==
    [][~accepting =>
          /\ nConns' = nConns
          /\ \A a \in Addrs : conns'[a] \in {conns[a], NoConn}
          /\ \A c \in ConnIds : hpc[c] = "none" => hpc'[c] = "none"
      ]_vars

\* C6: within one session, successive Reads return the datagrams in the order
\* in which the listener's read loop handed them over: the queue of the session
\* holds exactly the handed datagrams that were not read yet, in the order of
\* their handing over, and a Read returns (the head of) the oldest of them.
C6_SessionFIFO ==
    \A c \in ConnIds :
        /\ msgs[c] = pending[c]
        /\ hpc[c] = "count" =>
              /\ hGot[c].n <= Len(hGot[c].expect)
              /\ hGot[c].data = SubSeq(hGot[c].expect, 1, hGot[c].n)

\* A Read returns the long datagram that was handed over first, while the short
\* one that arrived after it waits in the queue.
C6_Witness ==
    \E c \in ConnIds :
        /\ hpc[c] = "count"
        /\ hGot[c].data = <<1, 2>>
        /\ msgs[c] = << <<3>> >>

\* C7: a successful Read consumes exactly one queued datagram and returns
\* min(len(p), length of the datagram) bytes, which are the first bytes of that
\* datagram as it was handed over: nothing of another datagram, queued before
\* or after, is in them.
C7_ReadOneDatagram ==
    /\ [](\A c \in ConnIds :
             hpc[c] = "count" =>
                /\ hGot[c].n = Min(hGot[c].p, Len(hGot[c].expect))
                /\ hGot[c].data = SubSeq(hGot[c].expect, 1, hGot[c].n))
    /\ [][\A c \in ConnIds :
             (hpc[c] = "read" /\ hpc'[c] = "count") =>
                /\ Len(msgs'[c]) = Len(msgs[c]) - 1
                /\ msgs'[c] = Tail(msgs[c])
                /\ hGot'[c].expect = Head(msgs[c])
         ]_vars

\* A Read into a buffer of one byte returns the first byte of the long
\* datagram, while the short datagram that arrived after it is queued.
C7_Witness ==
    \E c \in ConnIds :
        /\ hpc[c] = "count"
        /\ hGot[c].p = 1
        /\ hGot[c].n = 1
        /\ hGot[c].data = <<1>>
        /\ hGot[c].expect = <<1, 2>>
        /\ msgs[c] = << <<3>> >>

\* The sessions that were published on the accept channel.
Accepted == {c \in ConnIds : hpc[c] # "none"}

\* ceil(n / r), for r > 0.
CeilDiv(n, r) == (n + r - 1) \div r

\* C8: a client at one address has sent N datagrams one at a time, each read
\* before the next was sent. With a request limit R <= 0 one session was
\* created and accepted, and it has had all N reads; with R > 0 no session
\* has had more than R reads and ceil(N/R) sessions were created and accepted.
C8_SessionsPerLimit ==
    (Quiet /\ nSent > 0) =>
        /\ Cardinality(Accepted) = nConns
        /\ IF lrequests <= 0
              THEN /\ nConns = 1
                   /\ crequests[1] = nSent
              ELSE /\ nConns = CeilDiv(nSent, lrequests)
                   /\ \A c \in Accepted : crequests[c] <= lrequests
                   /\ \A c \in Accepted : c < nConns => crequests[c] = lrequests

\* With limit 1, two datagrams were handled by two sessions.
C8_Witness ==
    /\ Quiet
    /\ lrequests = 1
    /\ nSent = 2
    /\ nConns = 2
    /\ Cardinality(Accepted) = 2

\* The callers that are inside Shutdown, past the test of accepting.
Closers == {s \in SThreads : spc[s] = "poll"}

\* C9: under any interleaving of Shutdown and Close calls, the internal close
\* runs once, in the one call that cleared accepting (no other call gets past
\* the test of accepting); a call that finds accepting false changes nothing.
C9_ShutdownIdempotent ==
    /\ [](/\ nClose <= 1
          /\ Cardinality(Closers) = (IF ~accepting /\ nClose = 0 THEN 1 ELSE 0)
          /\ (nClose = 1) = acceptChClosed)
    /\ [][\A s \in SThreads :
             (Shutdown(s) /\ ~accepting) =>
                UNCHANGED <<nSent, inbox, pConnClosed, accepting, acceptChClosed,
                            conns, lrequests, nConns, cAddr, msgs, crequests,
                            doneCh, nDone, lastActivity, rlpc, hpc, hGot, lpc, lAddr,
                            lData, lConn, spc, apc, pending, nClose>>
         ]_vars

\* The close has run once, every call has returned, and one of the calls
\* found accepting false.
C9_Witness ==
    /\ nClose = 1
    /\ sawNoop
    /\ \A s \in SThreads : spc[s] = "idle"

\* C10: at the return of the Shutdown call that does the close, the socket is
\* closed, the done signal of every session that was registered has fired, the
\* registry is empty and the accept channel is closed; from then on the socket
\* and the channel stay closed, an Accept call that is blocked can return, and
\* every Accept call that returns, returns errClosedListener.
C10_CloseThenAcceptFails ==
    /\ [][\A s \in SThreads :
             ShutdownClose(s) =>
                /\ pConnClosed'
                /\ acceptChClosed'
                /\ \A a \in Addrs : conns'[a] = NoConn
                /\ \A a \in Addrs : conns[a] # NoConn => doneCh'[conns[a]]
         ]_vars
    /\ [][acceptChClosed =>
             /\ acceptChClosed' /\ pConnClosed'
             /\ (apc = "in" /\ apc' # "in") => apc' = "errClosedListener"
             /\ apc' # "conn" \/ apc = "conn"
         ]_vars
    /\ [](acceptChClosed /\ apc = "in" /\ Alive => ENABLED AcceptClosed)

\* The close has closed a session that was still registered (its handler is
\* blocked in its first Read, and its read loop runs), and an Accept call has
\* returned errClosedListener.
C10_Witness ==
    /\ acceptChClosed
    /\ apc = "errClosedListener"
    /\ \E c \in ConnIds :
          hpc[c] = "read" /\ crequests[c] = 0 /\ doneCh[c] /\ rlpc[c] = "loop"

\* Shutdown has cleared accepting and has not run the close yet.
Draining == ~accepting /\ ~pConnClosed

\* C11 as stated: while the listener drains, every datagram from an address
\* with a session is dispatched to that session, which stays open.
C11_AsStated ==
    [][(Draining /\ ListenerGetConn /\ conns[Head(inbox)[1]] # NoConn) =>
          /\ lpc' = "send"
          /\ lConn' = conns[Head(inbox)[1]]
          /\ doneCh' = doneCh
          /\ conns' = conns
      ]_vars

\* C11: while the listener drains, a datagram from an address whose session
\* has not reached the request limit is dispatched to that session, and
\* reading it closes no session; a datagram from an address whose session has
\* reached the limit closes that session and is dropped; a datagram from an
\* address without a session is dropped; in both cases of a drop no session is
\* created and no Accept returns. Clearing accepting closes no session, and
\* the read loop does not return before the socket is closed.
C11_DrainKeepsSessions ==
    /\ [][(Draining /\ ListenerGetConn) =>
             LET a == Head(inbox)[1]
                 c == conns[a]
             IN  /\ nConns' = nConns
                 /\ apc' = apc /\ hpc' = hpc
                 /\ IF c # NoConn /\ (lrequests <= 0 \/ crequests[c] < lrequests)
                       THEN /\ lpc' = "send" /\ lConn' = c /\ lData' = Head(inbox)[2]
                            /\ doneCh' = doneCh /\ conns' = conns
                       ELSE /\ lpc' = "read"
                            /\ \A b \in Addrs : conns'[b] = IF b = a THEN NoConn ELSE conns[b]
                            /\ \A d \in ConnIds : doneCh'[d] = (doneCh[d] \/ d = c)
         ]_vars
    /\ [][(accepting /\ ~accepting') =>
             /\ doneCh' = doneCh /\ conns' = conns /\ msgs' = msgs
             /\ rlpc' = rlpc /\ pConnClosed' = pConnClosed
         ]_vars
    /\ [](lpc = "exit" => pConnClosed)
    /\ [](\A c \in ConnIds :
             (Draining /\ lpc = "send" /\ lConn = c /\ rlpc[c] = "loop")
                => ENABLED ListenerSend)

\* While the listener drains, a datagram for a session that is registered and
\* open is about to be handed to it.
C11_Witness ==
    /\ Draining
    /\ lpc = "send"
    /\ conns[lAddr] = lConn
    /\ hpc[lConn] # "none"
    /\ ~doneCh[lConn]
    /\ rlpc[lConn] = "loop"

C13_ShutdownReturns ==
    \A s \in SThreads : (sspc[s] # "idle") ~> (sspc[s] = "idle")

\* C14: Conn.Close is idempotent and safe under concurrent callers (the
\* handler, the idle ticker, the listener's close, getConn): the done signal
\* of a session is closed exactly once however many calls there are, never a
\* second time (which would panic), and a session whose Close has returned is
\* not in the registry.
C14_CloseOnce ==
    \A c \in ConnIds :
        /\ nDone[c] <= 1
        /\ doneCh[c] <=> (nDone[c] = 1)
        /\ doneCh[c] => \A a \in Addrs : conns[a] # c

\* A session that is already closed while both its idle ticker and its
\* handler are about to call Close again.
C14_Witness ==
    \E c \in ConnIds :
        /\ doneCh[c]
        /\ nDone[c] = 1
        /\ ENABLED ConnTick(c)
        /\ ENABLED HandlerClose(c)

\* C15: Conn.Read returns an error only if the session's done signal has
\* fired, and then it returns 0 bytes with io.EOF: a call that returns without
\* having been served by the session's read loop returns on a closed session,
\* takes no datagram from the queue and counts no request. A Read that is
\* blocked on a closed session (closed by the idle timeout, by Close or by the
\* listener's shutdown) can return.
C15_ReadErrorOnlyWhenDone ==
    /\ [](\A c \in ConnIds :
             (Alive /\ hpc[c] = "read" /\ doneCh[c])
                 => ENABLED (HandlerReads(c, BufLens) /\ hpc'[c] = "idle"))
    /\ [][\A c \in ConnIds :
             (hpc[c] = "read" /\ hpc'[c] = "idle")
                 => /\ doneCh[c]
                    /\ hGot'[c] = NoRead
                    /\ msgs'[c] = msgs[c]
                    /\ crequests'[c] = crequests[c]]_vars

\* A Read is blocked on the empty queue of a session that its idle timeout
\* has closed.
C15_Witness ==
    \E c \in ConnIds :
        /\ hpc[c] = "read"
        /\ msgs[c] = <<>>
        /\ doneCh[c]
        /\ rlpc[c] = "exit"

\* The listener's read loop has taken every datagram off the socket and is
\* back at ReadFrom.
Dispatched == inbox = <<>> /\ lpc = "read"

\* C16, as stated: the read loop never blocks forever, also when Accept is
\* not called any more: every datagram on the socket is dispatched.
C16_AsStated == (~Dispatched) ~> Dispatched

\* C16: as long as Accept keeps being called, the listener's shared read
\* loop never blocks forever because of one session: whether sessions are
\* closing, closed, or left unread by their handlers, every datagram that
\* arrives on the socket is taken and dispatched, and the loop gets back to
\* reading the socket.
C16_ReadLoopNotStalled == ([]<>(apc = "in")) => ((~Dispatched) ~> Dispatched)

\* The read loop is handing a datagram to the session of one address while
\* the session of the other address is closed with a datagram left unread.
C16_Witness ==
    \E c, d \in ConnIds :
        /\ cAddr[c] # cAddr[d]
        /\ doneCh[c]
        /\ msgs[c] # <<>>
        /\ lpc = "send"
        /\ lConn = d

\* The connection data the router matches on: without a peek the server
\* name is empty, after a peek it is the one that was extracted.
Sniffed == clientHelloServerName(stream, chunk)

\* What the dispatch rule asks for: the target of the route of the highest
\* priority among the routes of mux whose matchers hold for the server name
\* and the remote address; without one the forwarder; without a forwarder
\* the connection is closed.
Expected(mux, forwarder, serverName) ==
    LET matching == {r \in mux : r.sni \in {"*", serverName} /\ r.ip \in {"*", remote}}
        best == {r \in matching : \A q \in matching : q.priority <= r.priority}
    IN  IF matching # {} THEN [served |-> {<<r.target>> : r \in best}, closed |-> 0]
        ELSE IF forwarder # Nil THEN [served |-> {<<forwarder>>}, closed |-> 0]
        ELSE [served |-> {<<>>}, closed |-> 1]

\* C17: for every connection the router treats as plain (the peek showed
\* non-TLS, or no peek was made because the plain muxer has routes and the
\* TLS muxer has none): the handler of the matching plain route is invoked;
\* without a match the HTTP forwarder, if one is configured; else the
\* connection is closed. After a peek the handler is given a wrapper that
\* starts with the peeked bytes.
C17_PlainDispatch ==
    (/\ tpc = "served"
     /\ remote # BadAddr
     /\ NoPeek \/ (~Sniffed.err /\ ~Sniffed.tls))
        => /\ served \in Expected(tcpMuxer, httpForwarder, "").served
           /\ connClosed = Expected(tcpMuxer, httpForwarder, "").closed
           /\ (~NoPeek /\ served # <<>>)
                 => wrapped /\ (got = <<>> => Peeked = Sniffed.peeked)

\* The stream starts with a whole TLS handshake record.
StartsWithTLSRecord ==
    /\ Len(stream) >= RecordHeaderLen
    /\ stream[1] = RecordTypeHandshake
    /\ Len(stream) >= RecordHeaderLen + stream[4] * 256 + stream[5]

\* The server name in the ClientHello that the stream starts with.
ServerNameSent ==
    IF stream[RecordHeaderLen + 1] = 1 THEN "a.com"
    ELSE IF stream[RecordHeaderLen + 1] = 2 THEN "b.com"
    ELSE ""

\* The TLS dispatch rule on the connection that has been served.
TLSDispatched ==
    /\ served \in Expected(tcpMuxerTLS, httpsForwarder, ServerNameSent).served
    /\ connClosed = Expected(tcpMuxerTLS, httpsForwarder, ServerNameSent).closed

\* C18, as stated: for every accepted connection whose first bytes are a
\* TLS record, in every configuration of plain routes, TLS routes and
\* forwarders, the TLS dispatch rule is followed.
C18_AsStated ==
    (tpc = "served" /\ remote # BadAddr /\ StartsWithTLSRecord) => TLSDispatched

\* C18: for every accepted connection whose first bytes are a TLS record,
\* in every configuration in which the router peeks (all but those where
\* the plain muxer has routes and the TLS muxer has none): the handler of
\* the TLS route that matches the record's server name is invoked; without
\* a match the HTTPS forwarder, if one is configured; else the connection is
\* closed.
C18_TLSDispatch ==
    (/\ tpc = "served"
     /\ remote # BadAddr
     /\ StartsWithTLSRecord
     /\ ~(tcpMuxer # {} /\ tcpMuxerTLS = {}))
        => TLSDispatched

\* A ClientHello for a.com that does not fit in the default buffer has been
\* handed to the TLS route of a.com, in a router that also has a plain route
\* for every connection and both forwarders.
C18_Witness ==
    /\ tpc = "served"
    /\ StartsWithTLSRecord
    /\ Len(stream) > DefaultBufSize
    /\ ServerNameSent = "a.com"
    /\ \E r \in tcpMuxer : r.sni = "*" /\ r.ip = "*"
    /\ httpForwarder # Nil
    /\ httpsForwarder # Nil
    /\ served = <<"tlsA">>
    /\ wrapped

\* C19: when the peek fails on the first byte, the router closes the
\* connection exactly once and invokes no route handler and no forwarder;
\* and every connection that ServeTCP has served was either handed to
\* exactly one handler or forwarder and not closed, or closed once by the
\* router and handed to nobody.
C19_RejectedOrHandedOnce ==
    tpc = "served"
        => /\ \/ Len(served) = 1 /\ connClosed = 0
              \/ served = <<>> /\ connClosed = 1
           /\ (~NoPeek /\ stream = <<>>)
                 => served = <<>> /\ connClosed = 1 /\ got = <<>>

\* The peek has failed on a connection that sent nothing, in a router that
\* has a plain route for every connection, a TLS route and both forwarders.
C19_Witness ==
    /\ tpc = "served"
    /\ stream = <<>>
    /\ ~NoPeek
    /\ Match(tcpMuxer, NewConnData("", remote)) # Nil
    /\ hasRoutes(tcpMuxerTLS)
    /\ httpForwarder # Nil
    /\ httpsForwarder # Nil
    /\ connClosed = 1

\* C20: the peek replay loses and duplicates nothing: what the handler has
\* read through the connection it was given, followed by what is left of the
\* peeked bytes and by what the underlying connection has yet to deliver, is
\* the byte sequence the client sent, for every split of the handler's reads
\* and also when the ClientHello record does not fit in the default buffer.
C20_ReplayExact ==
    (tpc = "served" /\ served # <<>>)
        => got \o Peeked \o SubSeq(stream, connPos + 1, Len(stream)) = stream

(***************************************************************************)
(* ---------------------------- Muxer claims ----------------------------- *)
(***************************************************************************)
\* The indexes of the routes whose rule matches meta.
Matching(meta) == {i \in 1..Len(routes) : RuleMatches(routes[i].rule, meta)}

\* The routes in another order.
Reordered ==
    {[i \in 1..Len(routes) |-> routes[f[i]]] :
        f \in {g \in [1..Len(routes) -> 1..Len(routes)] :
                  \A a, b \in 1..Len(routes) : a # b => g[a] # g[b]}}

\* C21: Match returns the handler of a matching route that no matching route
\* outranks, and nil when no route matches; a route given a priority above
\* the length of a longer rule wins over that rule; the result is the same
\* for every order of the same routes.
C21_MatchHighestPriority ==
    \A meta \in ConnDatas :
        /\ Matching(meta) = {} => MuxMatch(routes, meta) = Nil
        /\ Matching(meta) # {} =>
              \E i \in Matching(meta) :
                  /\ MuxMatch(routes, meta) = routes[i].handler
                  /\ \A j \in Matching(meta) : routes[j].priority <= routes[i].priority
        /\ \A i, j \in Matching(meta) :
              /\ Matching(meta) = {i, j}
              /\ routes[i].given > 0
              /\ routes[j].given <= 0
              /\ routes[i].given > Len(routes[j].rule.name) + 2 + ArgsLen(routes[j].rule.args)
              => MuxMatch(routes, meta) = routes[i].handler
        /\ \A rs \in Reordered : MuxMatch(rs, meta) = MuxMatch(routes, meta)

\* A short rule given priority 10000 was added after a longer rule given
\* priority 0, both match the server name "a", and the short rule wins.
C21_Witness ==
    /\ Len(routes) = 2
    /\ routes[1].rule = Rule("HostSNI", <<<<"a">>, <<"b">>>>) /\ routes[1].given = 0
    /\ routes[2].rule = Rule("HostSNI", <<<<"a">>>>) /\ routes[2].given = 10000
    /\ MuxMatch(routes, [serverName |-> <<"a">>, remoteIP |-> "10.0.0.1"])
          = Rule("HostSNI", <<<<"a">>>>)

\* C22: when exactly two routes match a ConnData and they were given the
\* same priority, Match returns the handler of the one whose rule text is
\* longer.
C22_LongerRuleWins ==
    \A meta \in ConnDatas : \A i, j \in Matching(meta) :
        /\ Matching(meta) = {i, j}
        /\ routes[i].given = routes[j].given
        /\ Len(routes[i].rule.name) + ArgsLen(routes[i].rule.args)
              > Len(routes[j].rule.name) + ArgsLen(routes[j].rule.args)
        => MuxMatch(routes, meta) = routes[i].handler

\* Two routes given the same explicit priority match the server name "a";
\* the shorter rule was added first.
C22_Witness ==
    /\ Len(routes) = 2
    /\ routes[1].rule = Rule("HostSNI", <<<<"a">>>>) /\ routes[1].given = 10000
    /\ routes[2].rule = Rule("HostSNI", <<<<"a">>, <<"b">>>>) /\ routes[2].given = 10000

\* C23: AddRoute with a malformed rule returns an error and leaves the
\* routes as they were, and the muxer has routes exactly when some AddRoute
\* call has succeeded.
C23_MalformedRuleRejected ==
    /\ [](MuxHasRoutes <=> nAdded > 0)
    /\ [][\A rule \in MalformedRules, priority \in Priorities :
              MuxAddRoute(rule, priority) => addErr' /\ routes' = routes]_vars

\* An AddRoute call failed after one had succeeded.
C23_Witness == addErr /\ nAdded = 1 /\ Len(routes) = 1

\* The hosts that name the server name, whatever the case and with or
\* without the trailing dot.
SameName ==
    { <<<<"a">>, <<"a">>>>, <<<<"A">>, <<"a">>>>, <<<<"a", ".">>, <<"a">>>>,
      <<<<"a", ".">>, <<"a", ".">>>>, <<<<"a">>, <<"a", ".">>>>,
      <<<<"A">>, <<"a", ".">>>>, <<<<"b">>, <<"b">>>> }

HostRoutes == {i \in 1..Len(routes) : routes[i].rule.name \in {"HostSNI", "HOSTSNI"}}

Hosts(i) == {routes[i].rule.args[k] : k \in 1..Len(routes[i].rule.args)}

Named(i, sn) == RuleMatches(routes[i].rule, [serverName |-> sn, remoteIP |-> "11.0.0.1"])

\* C24 as stated: a list that contains the wildcard matches every server
\* name, the empty one included, whatever other hosts it contains.
C24_AsStated ==
    \A i \in HostRoutes, sn \in ServerNames : Wildcard \in Hosts(i) => Named(i, sn)

\* C24: a HostSNI matcher matches a server name that is not empty when the
\* name is one of its hosts, whatever the case and the trailing dot, or when
\* the list contains the wildcard; the list of the wildcard alone matches the
\* empty server name too, and the wildcard after another host does not; an
\* empty list, a non-ASCII host and a subdomain wildcard are rejected when
\* the matcher is built.
C24_HostSNIMatches ==
    /\ \A i \in HostRoutes, sn \in ServerNames \ {<<>>} :
          /\ (\E h \in Hosts(i) : <<h, sn>> \in SameName) => Named(i, sn)
          /\ Wildcard \in Hosts(i) => Named(i, sn)
    /\ \A i \in HostRoutes :
          /\ routes[i].rule.args = <<Wildcard>> => Named(i, <<>>)
          /\ routes[i].rule.args = <<<<"b">>, Wildcard>> => ~Named(i, <<>>)
          /\ routes[i].rule.args # <<>>
          /\ <<"e-acute">> \notin Hosts(i)
          /\ Wildcard \o <<".", "b">> \notin Hosts(i)

\* The muxer holds a rule of a host with a trailing dot and a rule of the
\* wildcard after another host.
C24_Witness ==
    /\ \E i \in HostRoutes : routes[i].rule.args = <<<<"a", ".">>>>
    /\ \E i \in HostRoutes : routes[i].rule.args = <<<<"b">>, Wildcard>>

(***************************************************************************)
(* ---------------------------- Proxy claims ----------------------------- *)
(***************************************************************************)
\* C25: once ServeUDP has started its copy goroutines and returned, neither
\* direction is still copying, the session is closed and the backend
\* connection it dialled is closed.
C25_ReturnsAfterBothStopped ==
    servePc = "returned" /\ copyPc["toSession"] # "idle" =>
        /\ \A g \in Directions : copyPc[g] # "copy"
        /\ connIsClosed
        /\ pvariant = "dial" => backendIsClosed

(***************************************************************************)
(* ------------------------ Backend socket claims ------------------------ *)
(***************************************************************************)
\* C26: every datagram forwarded to the client came from an address that
\* WriteTo had been called with on this backend socket; a datagram from
\* another source is not forwarded, and handling it does not end the receive
\* goroutine.
C26_OnlyKnownBackendsForwarded ==
    /\ [](\A i \in 1..Len(fwdLog) : fwdLog[i].forwarded => fwdLog[i].src \in written)
    /\ [][bpc = "check" /\ inHand \notin written
             => bpc' \in {"check", "read"}
                /\ \A i \in 1..Len(fwdLog') : fwdLog'[i].src = inHand => ~fwdLog'[i].forwarded]_vars

\* A datagram of the stranger was dropped and a later datagram of a backend
\* the proxy wrote to was forwarded.
C26_Witness ==
    /\ Len(fwdLog) >= 2
    /\ fwdLog[1] = [src |-> Stranger, forwarded |-> FALSE]
    /\ fwdLog[2].src \in BackendAddrs /\ fwdLog[2].forwarded

(***************************************************************************)
(* ----------------------- Failover claims, part 2 ----------------------- *)
(***************************************************************************)
\* C27: RegisterStatusUpdater on a Failover made without a health check
\* returns an error and leaves the updaters unchanged, so no updater is ever
\* called; on a Failover made with a health check it returns nil and appends
\* the function after the ones registered before.
C27_RegisterNeedsHealthCheck ==
    /\ [](~wantsHealthCheck =>
             /\ updaters = <<>>
             /\ \A t \in FThreads : fLog[t] = <<>>
             /\ fLast.op \in Setters => fLast.log = <<>>)
    /\ [][\A t \in FThreads : RegisterStatusUpdater(t) =>
              IF wantsHealthCheck
              THEN /\ ~fLast'.err
                   /\ Len(updaters') = Len(updaters) + 1
                   /\ SubSeq(updaters', 1, Len(updaters)) = updaters
                   /\ \A i \in 1..Len(updaters) : updaters[i] # updaters'[Len(updaters')]
              ELSE fLast'.err /\ updaters' = updaters]_vars

\* RegisterStatusUpdater returned an error after the primary's status had
\* changed.
C27_Witness ==
    /\ ~wantsHealthCheck
    /\ fLast.op = "Register"
    /\ fLast.err
    /\ handlerStatus

(***************************************************************************)
(* ------------------------- Conn.Write claims --------------------------- *)
(***************************************************************************)
\* C28: with Responses not set, Write never closes the session because of
\* the count of responses; with Responses = n > 0 the session is not closed
\* by Write during the first n responses.
C28_ResponsesQuota ==
    /\ sessionResponses = 0 => nCloses = 0
    /\ sessionResponses > 0 /\ receiveCount <= sessionResponses => nCloses = 0

(***************************************************************************)
(* ------------------------ Kubernetes store claims ---------------------- *)
(***************************************************************************)
\* What GetAccount and GetCertificates return for a resolver in a state.
AccountOf(sd, r) == IF sd[r].present THEN sd[r].Account ELSE Nil

CertificatesOf(sd, r) == IF sd[r].present THEN sd[r].Certificates ELSE NilSlice

\* C29: before any save for a resolver GetAccount returns nil without error;
\* right after a successful SaveAccount(r, a) GetAccount(r) returns a, right
\* after a successful SaveCertificates(r, cs) GetCertificates(r) returns cs,
\* whatever was saved before; saving the account leaves the certificates of
\* every resolver and the accounts of the other resolvers as they were, and
\* the same for saving the certificates.
C29_StoreRoundTrip ==
    /\ [](/\ \A r \in Resolvers \ kSaved :
                /\ AccountOf(storedData, r) = Nil
                /\ CertificatesOf(storedData, r) = NilSlice
          /\ kLast.op = "GetAccount" /\ kLast.r \notin kSaved
                => kLast.val = Nil /\ ~kLast.err
          /\ kLast.op = "SaveAccount" /\ ~kLast.err
                => AccountOf(storedData, kLast.r) = kLast.val
          /\ kLast.op = "SaveCertificates" /\ ~kLast.err
                => CertificatesOf(storedData, kLast.r) = kLast.val)
    /\ [][\A r \in Resolvers :
            /\ (\E a \in Accounts, err \in BOOLEAN : SaveAccount(r, a, err)) =>
                  /\ \A q \in Resolvers :
                        CertificatesOf(storedData', q) = CertificatesOf(storedData, q)
                  /\ \A q \in Resolvers \ {r} :
                        AccountOf(storedData', q) = AccountOf(storedData, q)
            /\ (\E cs \in CertLists, err \in BOOLEAN : SaveCertificates(r, cs, err)) =>
                  /\ \A q \in Resolvers :
                        AccountOf(storedData', q) = AccountOf(storedData, q)
                  /\ \A q \in Resolvers \ {r} :
                        CertificatesOf(storedData', q) = CertificatesOf(storedData, q)]_vars

\* An account was saved over the certificates saved before, for the
\* resolver of the tests.
C29_Witness ==
    /\ kLast = [op |-> "SaveAccount", r |-> "resolver01", val |-> "not-john",
                err |-> FALSE]
    /\ CertificatesOf(storedData, "resolver01") = Slice(<<"example.org", "sub.example.org">>)

(***************************************************************************)
(* ----------------------- Failover claims, part 3 ----------------------- *)
(***************************************************************************)
\* C30: once every setter call has returned, the last value each updater was
\* called with is the primary's status or the failover's status of the final
\* state.
C30_LastDeliveryIsCurrent ==
    (\A t \in FThreads : rcPc[t] = "idle") =>
        \A u \in RaceUpdaters :
            rcLast[u].called =>
                rcLast[u].up = (rcStatus["SetHandlerStatus"]
                                   \/ rcStatus["SetFailoverHandlerStatus"])

(***************************************************************************)
(* ------------------------- UDP claims, part 3 -------------------------- *)
(***************************************************************************)
\* C31: the read loop never sends a session on the accept channel after the
\* channel has been closed: the panic of that send is never reached.
C31_NoSendOnClosedAcceptCh == lpc # "panic"

\* C32: a step that leaves a registered session open leaves it registered:
\* no Close of another session removes it from the registry.
C32_CloseRemovesOnlyItself ==
    [][\A c \in ConnIds :
          (\E a \in Addrs : conns[a] = c /\ cAddr[c] = a) /\ ~doneCh'[c]
              => conns'[cAddr[c]] = c]_vars

(* --------------------------- Idle timer claims -------------------------- *)
\* C33: when the ticker closes a session, at least the timeout has passed
\* since the later of the session's creation and its last Read or Write.
C33_IdleCloseOnlyAfterTimeout ==
    [][tLoopPc = "loop" /\ tLoopPc' = "exit"
          => tNow' - (IF tLastActivity > tCreated THEN tLastActivity ELSE tCreated)
                 >= timeout]_vars

\* C36: a Read or a Write sets lastActivity to the current time, the ticker
\* closes the session exactly when the clock is past lastActivity + timeout,
\* and so a session whose last Read or Write is no older than the timeout is
\* not closed by the ticker.
C36_ActivityKeepsSessionOpen ==
    /\ [][tOps' # tOps => tLastActivity' = tNow]_vars
    /\ [][tNow' # tNow => (tLoopPc' = "exit" <=> tNow' > tLastActivity + timeout)]_vars
    /\ [][tOps > 0 /\ tNow' - tLastActivity <= timeout => tLoopPc' = tLoopPc]_vars

\* A session that was read from and written to has outlived two timeouts.
C36_Witness ==
    /\ tLoopPc = "loop"
    /\ tOps = MaxOps
    /\ tNow - tCreated > 2 * timeout

(* ------------------------- UDP claims, part 4 -------------------------- *)
\* C39: with a request limit R > 0, no session has completed more than R
\* Reads, and no session has been handed more than R datagrams, those read
\* and those still queued together.
C39_RequestLimitBoundsSession ==
    lrequests > 0 =>
        \A c \in ConnIds :
            /\ crequests[c] <= lrequests
            /\ crequests[c] + Len(pending[c]) <= lrequests

(* -------------------------- Failover claims, part 3 --------------------- *)
\* C34: with updaters registered, every step that flips the primary or the
\* failover status is the start of the range loop that calls each updater:
\* the goroutine that made the flip goes on to invoke the updaters.
C34_EveryFlipInvokesUpdaters ==
    [][/\ (updaters # <<>> /\ handlerStatus' # handlerStatus
              => \E t \in FThreads : fpc[t] = "idle" /\ fpc'[t] = "shsLoop")
       /\ (updaters # <<>> /\ failoverStatus' # failoverStatus
              => \E t \in FThreads : fpc[t] = "idle" /\ fpc'[t] = "sfhsLoop")]_vars

(* --------------------------- Router claims, part 2 ---------------------- *)
\* C35: a connection that was handed to a route handler or to a forwarder has
\* had its read and write deadlines removed before.
C35_DeadlinesClearedBeforeHandoff ==
    tpc = "served" /\ served # <<>> => connDeadline = "none"

(* ------------------------- ServeUDP claims, part 2 ---------------------- *)
\* C37: after a temporary error of a write to the backend the copy loop goes
\* on with the next datagram and the session is as it was; after any other
\* error the loop stops and, by the time ServeUDP has returned, the session
\* is closed and the error was logged.
C37_BackendErrorHandling ==
    /\ [][Len(yWrites') > Len(yWrites) /\ yWrites'[Len(yWrites')] = "temporary"
             => yCopy' = "read" /\ yDoneCh' = yDoneCh]_vars
    /\ [][Len(yWrites') > Len(yWrites) /\ yWrites'[Len(yWrites')] = "error"
             => yCopy' = "send"]_vars
    /\ [](yServe = "returned" /\ yErr = "error" => yLogged /\ yDoneCh)

\* C38: clientHelloServerName returns an error exactly when no first byte
\* can be peeked; without an error the stream is classified as TLS exactly
\* when its first byte is the handshake record type or the SSLv2 byte, and
\* the bytes returned are the bytes of the stream peeked so far.
C38_ClassifiedByFirstByte ==
    tpc = "served" =>
        /\ Sniffed.err <=> stream = <<>>
        /\ ~Sniffed.err =>
              /\ Sniffed.tls <=> stream[1] \in {RecordTypeHandshake, RecordTypeSSLv2}
              /\ Sniffed.peeked # <<>>
              /\ Sniffed.peeked = SubSeq(stream, 1, Len(Sniffed.peeked))

(* ------------------------- ServeUDP claims, part 3 ---------------------- *)
\* C40: ServeUDP releases every lock of the proxy it takes, on every return
\* path: the lock is held for reading only by calls that are between RLock
\* and RUnlock, and for writing only by a call that is between Lock and
\* Unlock, so that a call that returned holds nothing and a waiting Lock is
\* granted in the end.
C40_ServeUDPReleasesLocks ==
    /\ \A c \in qReaders : qPc[c] = "check"
    /\ qWriter # NoConn => qPc[qWriter] = "finish"

====
